---- MODULE Spec2Model ----
(***************************************************************************)
(* Expense ingestion / reconciliation engine and renewal lifecycle jobs.   *)
(*                                                                         *)
(* State: the ExpenseEntry collection (store), the RenewalLog collection,  *)
(* the messages handed to the e-mail / notification collaborators          *)
(* (outbox), the wall clock (now), the answer of the last request or job   *)
(* run (last) and the environment the server process was started in (env). *)
(*                                                                         *)
(* Time is counted in ticks, TicksPerDay ticks to a calendar day, from      *)
(* 1970-01-01 UTC; the server's local time zone is UTC.                     *)
(***************************************************************************)
EXTENDS Integers, Sequences, FiniteSets, TLC

(* ------------------------------ bounds -------------------------------- *)
MaxEntries == 2
MaxRows == 2
MaxLog == 1
MaxClock == 5
TicksPerDay == 2
MaxSerial == 40
MaxElapse == 2
MaxRuns == 2
MaxDays == 14

VARIABLES store, nextId, renewalLog, outbox, now, last, env, running

vars == <<store, nextId, renewalLog, outbox, now, last, env, running>>

(* --------------------------- absent values ---------------------------- *)
\* null in a date field (nextRenewalDate, disabledAt, an unparsable date)
NullDate == -1
\* NaN as parseFloat / Number give it for a blank or non-numeric cell
NaN == -1
\* null / undefined in a string field
Null == "null"

IsNaN(x) == x = NaN
\* JS relational operators: any comparison with NaN is false
JsGt(a, b) == IF IsNaN(a) \/ IsNaN(b) THEN FALSE ELSE a > b
JsGe(a, b) == IF IsNaN(a) \/ IsNaN(b) THEN FALSE ELSE a >= b
JsAdd(a, b) == IF IsNaN(a) \/ IsNaN(b) THEN NaN ELSE a + b

(* ------------------------------ calendar ------------------------------ *)
\* Date.UTC(y, m, d): days from 1970-01-01 of a proleptic Gregorian date;
\* m and d may lie outside their range, as Date normalises them.
DaysFromCivil(y, m, d) ==
  LET m0 == m - 1
      yy == y + (m0 \div 12)
      mm == (m0 % 12) + 1
      yc == IF mm <= 2 THEN yy - 1 ELSE yy
      era == yc \div 400
      yoe == yc - era * 400
      mp == (mm + 9) % 12
      doy == ((153 * mp + 2) \div 5)
      doe == yoe * 365 + (yoe \div 4) - (yoe \div 100) + doy
  IN  era * 146097 + doe - 719468 + (d - 1)

\* getFullYear / getMonth+1 / getDate of a day number
CivilFromDays(z) ==
  LET zz == z + 719468
      era == zz \div 146097
      doe == zz - era * 146097
      yoe == (doe - (doe \div 1460) + (doe \div 36524) - (doe \div 146096)) \div 365
      doy == doe - (365 * yoe + (yoe \div 4) - (yoe \div 100))
      mp == (5 * doy + 2) \div 153
      dd == doy - ((153 * mp + 2) \div 5) + 1
      mm == IF mp < 10 THEN mp + 3 ELSE mp - 9
      yy == yoe + era * 400 + (IF mm <= 2 THEN 1 ELSE 0)
  IN  [y |-> yy, m |-> mm, d |-> dd]

At(day, tod) == day * TicksPerDay + tod
DayOf(t) == t \div TicksPerDay
TimeOfDay(t) == t % TicksPerDay

\* d = new Date(t); d.setMonth(d.getMonth() + 1)
SetMonthPlusOne(t) ==
  LET c == CivilFromDays(DayOf(t))
  IN  At(DaysFromCivil(c.y, c.m + 1, c.d), TimeOfDay(t))

\* d = new Date(t); d.setFullYear(d.getFullYear() + 1)
SetFullYearPlusOne(t) ==
  LET c == CivilFromDays(DayOf(t))
  IN  At(DaysFromCivil(c.y + 1, c.m, c.d), TimeOfDay(t))

(* ------------------------- text normalisation ------------------------- *)
\* value.toString().trim().toLowerCase() on the spellings that occur in the
\* inputs and in the canonical member lists
LowerOf ==
  ("Wytlabs" :> "wytlabs") @@ (" wytlabs " :> "wytlabs") @@ ("WYTLABS" :> "wytlabs") @@
  ("Collabx" :> "collabx") @@ ("DWSG" :> "dwsg") @@ ("DWS G" :> "dws g") @@
  ("Signature" :> "signature") @@ ("Smegoweb" :> "smegoweb") @@ ("Shared" :> "shared") @@
  ("Acme" :> "acme") @@
  ("Tool" :> "tool") @@ ("Service" :> "service") @@ ("Tool & Service" :> "tool & service") @@
  ("Domain" :> "domain") @@ ("Google" :> "google") @@ ("Hosting" :> "hosting") @@
  ("Google Adwords Expense" :> "google adwords expense") @@
  ("Proxy" :> "proxy") @@ ("Server" :> "server") @@
  ("Ops" :> "ops") @@ ("FE" :> "fe") @@ ("OH Exps" :> "oh exps") @@
  ("Support" :> "support") @@ ("Management EXPS" :> "management exps") @@
  ("Vaibhav" :> "vaibhav") @@ ("Marc" :> "marc") @@ ("Dawood" :> "dawood") @@
  ("Raghav" :> "raghav") @@ ("Tarun" :> "tarun") @@ ("Yulia" :> "yulia") @@
  ("Sarthak" :> "sarthak") @@ ("Harshit" :> "harshit") @@ ("Suspense" :> "suspense") @@
  ("Active" :> "active") @@ ("Deactive" :> "deactive") @@ ("Declined" :> "declined") @@
  ("Deactive-NextMonth" :> "deactive-nextmonth") @@
  ("Yes" :> "yes") @@ ("No" :> "no") @@ ("TRUE" :> "true") @@ (" Yes " :> "yes") @@
  ("Monthly" :> "monthly") @@ ("Yearly" :> "yearly") @@ (" Yearly " :> "yearly") @@
  ("One-time" :> "one-time") @@ ("Recurring_M" :> "recurring_m") @@ ("Weekly" :> "weekly") @@
  ("Paused" :> "paused")

TrimLower(s) == IF s \in DOMAIN LowerOf THEN LowerOf[s] ELSE s

typeMap ==
  ("tool & service" :> "Service") @@ ("tools & service" :> "Service") @@
  ("tool & services" :> "Service") @@ ("tools & services" :> "Service") @@
  ("tool" :> "Tool") @@ ("service" :> "Service") @@
  ("google adwords expenses" :> "Google Adwords Expense") @@
  ("google adwords expense" :> "Google Adwords Expense")
allowedTypes ==
  <<"Domain", "Google", "Google Adwords Expense", "Hosting", "Proxy", "Server", "Service", "Tool">>

costCenterMap ==
  ("ops" :> "Ops") @@ ("oh exps" :> "OH Exps") @@ ("oh exps." :> "OH Exps") @@
  ("fe" :> "FE") @@ ("support" :> "Support") @@
  ("management exps" :> "Management EXPS") @@ ("management exps." :> "Management EXPS")
allowedCostCenters == <<"Ops", "FE", "OH Exps", "Support", "Management EXPS">>

businessUnitMap ==
  ("dws g" :> "DWSG") @@ ("dwsg" :> "DWSG") @@ ("signature" :> "Signature") @@
  ("collabx" :> "Collabx") @@ ("wytlabs" :> "Wytlabs") @@ ("smegoweb" :> "Smegoweb") @@
  ("shared" :> "Wytlabs") @@ ("excel forum" :> "Wytlabs") @@ ("excel fourm" :> "Wytlabs") @@
  ("wytlabs and dws" :> "Wytlabs")
allowedBusinessUnits == <<"DWSG", "Signature", "Collabx", "Wytlabs", "Smegoweb">>

statusMap ==
  ("deactive-nextmonth" :> "Deactive") @@ ("deactivate-nextmonth" :> "Deactive")
allowedStatus == <<"Active", "Deactive", "Declined">>

approvedByMap ==
  ("vaibhav" :> "Vaibhav") @@ ("marc" :> "Marc") @@ ("dawood" :> "Dawood") @@
  ("raghav" :> "Raghav") @@ ("tarun" :> "Tarun") @@ ("yulia" :> "Yulia") @@
  ("sarthak" :> "Sarthak") @@ ("harshit" :> "Harshit") @@ ("suspense" :> "Tarun")
allowedApprovedBy ==
  <<"Vaibhav", "Marc", "Dawood", "Raghav", "Tarun", "Yulia", "Sarthak", "Harshit">>

\* recurringMap is looked up with the raw cell, untrimmed and case-sensitive
recurringMap ==
  ("Recurring_M" :> "Monthly") @@ ("Recurring_Y" :> "Yearly") @@ ("OneTime" :> "One-time") @@
  ("One Time" :> "One-time") @@ ("One-time" :> "One-time") @@ ("Monthly" :> "Monthly") @@
  ("Yearly" :> "Yearly")

\* normalizeEnum(value, map, allowedSet); "" is a blank (falsy) cell
normalizeEnum(value, map, allowedSet) ==
  IF value = "" \/ value = Null THEN Null
  ELSE LET norm == TrimLower(value)
           hits == {i \in 1..Len(allowedSet) : TrimLower(allowedSet[i]) = norm}
       IN  IF norm \in DOMAIN map THEN map[norm]
           ELSE IF hits # {} THEN allowedSet[CHOOSE i \in hits : \A j \in hits : i <= j]
           ELSE Null

normalizeBU(val) == normalizeEnum(val, businessUnitMap, allowedBusinessUnits)

\* parseBoolean(value)
parseBoolean(value) ==
  IF value = "" \/ value = Null THEN FALSE
  ELSE TrimLower(value) \in {"true", "yes", "y", "1", "shared", "checked"}

(* --------------------------- date resolution -------------------------- *)
ExcelEpochDay == DaysFromCivil(1899, 12, 30)

SecondsPerDay == 24 * 60 * 60
\* A spreadsheet serial number is [v, frac]: v whole days and frac quarters of
\* a second of the fractional day, 0 <= frac < SerialUnit
SerialUnit == 4 * SecondsPerDay

Serial(days, frac) == [kind |-> "serial", v |-> days, frac |-> frac]

\* excelSerialToDate(serial): days = Math.floor(serial),
\* seconds = Math.round(fractionalDay * 86400), the instant
\* epoch + days * 86400000 + seconds * 1000, here in ticks
excelSerialToDate(serial) ==
  LET days == serial.v
      fractionalDay == serial.frac
      seconds == (fractionalDay + 2) \div 4
  IN  At(ExcelEpochDay + days, 0) + ((seconds * TicksPerDay) \div SecondsPerDay)

\* A string of three numbers separated by '-' or '/': the numbers a, b, y and
\* the number of digits y is written with
Parts(a, b, y, digits) == [kind |-> "parts", a |-> a, b |-> b, y |-> y, digits |-> digits]

\* The year, month and day of an Invalid Date
InvalidDate == [y |-> 0, m |-> 0, d |-> 0]

\* new Date(str) for such a string, as Node's engine parses a string that is
\* not in the ISO format: month, day, year; a year below 50 is 20yy and one
\* below 100 is 19yy; a month outside 1..12 or a day outside 1..31 is an
\* Invalid Date; the instant is midnight of that day in the server's time
\* zone (UTC)
NativeDate(value) ==
  IF value.a \in 1..12 /\ value.b \in 1..31
  THEN [y |-> IF value.y < 50 THEN 2000 + value.y
              ELSE IF value.y < 100 THEN 1900 + value.y ELSE value.y,
        m |-> value.a, d |-> value.b]
  ELSE InvalidDate

\* The step 'Handle numeric parts' of parseDateValue: the year, month and day
\* given to Date.UTC(year, month - 1, day)
NumericParts(value) ==
  [y |-> IF value.digits = 2 THEN 2000 + value.y ELSE value.y,
   m |-> IF value.a > 12 THEN value.b ELSE value.a,
   d |-> IF value.a > 12 THEN value.a ELSE value.b]

\* The native parse of the string, else its numeric parts, as an instant
PartsDate(value) ==
  LET c == IF NativeDate(value) # InvalidDate THEN NativeDate(value) ELSE NumericParts(value)
  IN  At(DaysFromCivil(c.y, c.m, c.d), 0)

\* parseDateValue(value): value is a cell:
\*   "blank"   an empty cell                 -> null
\*   "date"    a Date instant (v in ticks)   -> itself
\*   "serial"  a number                      -> spreadsheet serial (0 is falsy: null)
\*   "parts"   a string 'a-b-y' or 'a/b/y'   -> the native parse, else the numeric parts
\*   "garbage" a string no step accepts      -> null
parseDateValue(value) ==
  CASE value.kind = "blank" -> NullDate
    [] value.kind = "date" -> value.v
    [] value.kind = "serial" ->
         IF value.v = 0 /\ value.frac = 0 THEN NullDate ELSE excelSerialToDate(value)
    [] value.kind = "parts" -> PartsDate(value)
    [] OTHER -> NullDate

(* -------------------------- shared allocations ------------------------ *)
RECURSIVE SumAmounts(_)
\* list.reduce((sum, item) => sum + item.amount, 0)
SumAmounts(list) ==
  IF list = <<>> THEN 0 ELSE JsAdd(SumAmounts(SubSeq(list, 1, Len(list) - 1)), list[Len(list)].amount)

HasBU(list, bu) == \E i \in 1..Len(list) : list[i].businessUnit = bu

RECURSIVE CleanAllocations(_)
\* .map(item => ({businessUnit, amount: Number(item.amount) || 0}))
\* .filter(item => item.businessUnit && item.amount > 0)
CleanAllocations(list) ==
  IF list = <<>> THEN <<>>
  ELSE LET item == Head(list)
           rest == CleanAllocations(Tail(list))
       IN  IF item.businessUnit # Null /\ item.businessUnit # "" /\ JsGt(item.amount, 0)
           THEN <<[businessUnit |-> item.businessUnit, amount |-> item.amount]>> \o rest
           ELSE rest

\* Variant: the allocations are cleaned and completed, their total is not
\* compared with the amount
validateSharedAllocationsNoLimit(isShared, sharedAllocations, totalAmount, primaryBU) ==
  IF ~isShared THEN [ok |-> TRUE, isShared |-> FALSE, sharedAllocations |-> <<>>]
  ELSE LET cleaned == CleanAllocations(sharedAllocations)
           withPrimary == IF HasBU(cleaned, primaryBU) THEN cleaned
                          ELSE Append(cleaned, [businessUnit |-> primaryBU, amount |-> 0])
       IN  [ok |-> TRUE, isShared |-> TRUE, sharedAllocations |-> withPrimary]

\* validateSharedAllocations(isShared, sharedAllocations, totalAmount, primaryBU):
\* [ok |-> FALSE] stands for the thrown 'Shared allocations exceed total amount'
validateSharedAllocations(isShared, sharedAllocations, totalAmount, primaryBU) ==
  IF ~isShared THEN [ok |-> TRUE, isShared |-> FALSE, sharedAllocations |-> <<>>]
  ELSE LET cleaned == CleanAllocations(sharedAllocations)
           withPrimary == IF HasBU(cleaned, primaryBU) THEN cleaned
                          ELSE Append(cleaned, [businessUnit |-> primaryBU, amount |-> 0])
           total == SumAmounts(withPrimary)
           limit == IF IsNaN(totalAmount) THEN 0 ELSE totalAmount
       IN  IF total > limit
           THEN [ok |-> FALSE, isShared |-> FALSE, sharedAllocations |-> <<>>]
           ELSE [ok |-> TRUE, isShared |-> TRUE, sharedAllocations |-> withPrimary]

\* parseSharedAllocations(raw, normalizeBusinessUnit): raw is [kind, items];
\* kind "blank" is an empty cell, "array" a structured / JSON list of
\* {businessUnit, amount}, "text" the segments "label: number" of a free text
RECURSIVE parseSharedAllocations(_)
parseSharedAllocations(raw) ==
  IF raw.kind = "blank" \/ raw.items = <<>> THEN <<>>
  ELSE LET item == Head(raw.items)
           bu == normalizeBU(item.businessUnit)
           rest == parseSharedAllocations([raw EXCEPT !.items = Tail(raw.items)])
       IN  IF bu # Null /\ JsGt(item.amount, 0)
           THEN <<[businessUnit |-> bu, amount |-> item.amount]>> \o rest
           ELSE rest

(* ------------------------------- users -------------------------------- *)
\* The User collection, in natural (insertion) order; it does not change.
UserList ==
  << [id |-> "u1", name |-> "Asha Rao", role |-> "service_handler", businessUnit |-> "Wytlabs"],
     [id |-> "u2", name |-> "Mira Shah", role |-> "mis_manager", businessUnit |-> "DWSG"],
     [id |-> "u3", name |-> "Sam Roy", role |-> "super_admin", businessUnit |-> "DWSG"],
     [id |-> "u4", name |-> "Bala Nair", role |-> "business_unit_admin", businessUnit |-> "Wytlabs"],
     [id |-> "u5", name |-> "Sunil Das", role |-> "spoc", businessUnit |-> "Wytlabs"],
     [id |-> "u6", name |-> "Chitra Sen", role |-> "spoc", businessUnit |-> "Collabx"] >>

UserByRole(role) == {i \in 1..Len(UserList) : UserList[i].role = role}

\* name.split(' ') lowercased: the alternatives of buildNamePattern(name)
NameTokens(name) ==
  CASE name = "Asha Rao" -> {"asha", "rao"}
    [] name = "Asha" -> {"asha"}
    [] name = "Mira Shah" -> {"mira", "shah"}
    [] name = "Sam Roy" -> {"sam", "roy"}
    [] name = "Bala Nair" -> {"bala", "nair"}
    [] name = "Sunil Das" -> {"sunil", "das"}
    [] name = "Chitra Sen" -> {"chitra", "sen"}
    [] OTHER -> {name}

\* User.findOne({name: buildNamePattern(handler), role: 'service_handler', businessUnit}):
\* the first user one of whose name's words is an alternative of the pattern;
\* 0 when none matches
FindHandler(handler, businessUnit) ==
  LET hits == {i \in 1..Len(UserList) :
                 /\ UserList[i].role = "service_handler"
                 /\ UserList[i].businessUnit = businessUnit
                 /\ NameTokens(handler) \cap NameTokens(UserList[i].name) # {}}
  IN  IF hits = {} THEN 0 ELSE CHOOSE i \in hits : \A j \in hits : i <= j

(* ------------------------------- store -------------------------------- *)
\* Schema defaults of a new ExpenseEntry
SchemaDefaults ==
  [renewalNotificationSent |-> FALSE, autoCancellationNotificationSent |-> FALSE,
   disabledAt |-> NullDate]

\* timestamps: every write of a record stamps its last-modified time. The only
\* reader of updatedAt is the retention cleanup, which reads it of Rejected
\* records only, and a record becomes Rejected by a write; the time is
\* therefore kept for the Rejected records and left null for the others.
Touch(e, t) == [e EXCEPT !.updatedAt = IF e.entryStatus = "Rejected" THEN t ELSE NullDate]

\* getExchangeRate(currency, 'INR'): the rate the currency service answers
getExchangeRate(currency) ==
  CASE currency = "USD" -> 80
    [] currency = "EUR" -> 90
    [] OTHER -> 1

\* convertToINR(amount, currency)
convertToINR(amount, currency) ==
  LET rate == getExchangeRate(currency)
  IN  [rate |-> rate, amountInINR |-> IF IsNaN(amount) THEN NaN ELSE amount * rate]

NewEntry(id, f) ==
  [_id |-> id, cardNumber |-> f.cardNumber, date |-> f.date, particulars |-> f.particulars,
   businessUnit |-> f.businessUnit, amount |-> f.amount, currency |-> f.currency,
   xeRate |-> f.xeRate, amountInINR |-> f.amountInINR, updatedAt |-> NullDate,
   status |-> f.status, serviceHandler |-> f.serviceHandler, recurring |-> f.recurring,
   entryStatus |-> f.entryStatus, duplicateStatus |-> f.duplicateStatus,
   nextRenewalDate |-> f.nextRenewalDate, isShared |-> f.isShared,
   sharedAllocations |-> f.sharedAllocations,
   renewalNotificationSent |-> SchemaDefaults.renewalNotificationSent,
   autoCancellationNotificationSent |-> SchemaDefaults.autoCancellationNotificationSent,
   disabledAt |-> SchemaDefaults.disabledAt]

\* The duplicate key of a record or of a normalised row
KeyOf(e) == <<e.cardNumber, e.date, e.particulars, e.businessUnit, e.amount, e.currency>>

\* ExpenseEntry.findOne({cardNumber, date, particulars, businessUnit, amount, currency}):
\* the first record in natural order with that key, 0 when there is none
FindDuplicate(st, key) ==
  LET hits == {i \in DOMAIN st : KeyOf(st[i]) = key}
  IN  IF hits = {} THEN 0 ELSE CHOOSE i \in hits : \A j \in hits : i <= j

\* Variant: the duplicate is found and counted, its status is left as it was
MarkMergedKeepsStatus(st, id, t) == st

\* Variant: the duplicate is saved whatever its status was
MarkMergedAlways(st, id, t) ==
  [st EXCEPT ![id] = Touch([@ EXCEPT !.duplicateStatus = "Merged"], t)]

\* if (duplicateEntry.duplicateStatus !== 'Merged') { ... = 'Merged'; save() }
MarkMerged(st, id, t) ==
  IF st[id].duplicateStatus # "Merged"
  THEN [st EXCEPT ![id] = Touch([@ EXCEPT !.duplicateStatus = "Merged"], t)]
  ELSE st

\* Calculate next renewal date
NextRenewalDate(recurring, date) ==
  IF recurring = "Monthly" THEN SetMonthPlusOne(date)
  ELSE IF recurring = "Yearly" THEN SetFullYearPlusOne(date)
  ELSE NullDate

Insert(st, id, e) == [i \in DOMAIN st \cup {id} |-> IF i = id THEN e ELSE st[i]]

Msg(channel, type, to, entry, renewalDate) ==
  [channel |-> channel, type |-> type, to |-> to, entry |-> entry, renewalDate |-> renewalDate]

NoResults == [total |-> 0, success |-> 0, failed |-> 0, merged |-> 0, unique |-> 0, errors |-> <<>>]

Answer(op, code, sent, results) == [op |-> op, code |-> code, sent |-> sent, results |-> results]

MsgSet(sent) == {sent[i] : i \in 1..Len(sent)}

(* ----------------------------- bulk ingest ---------------------------- *)
RowFailed(acc, i, message) ==
  [acc EXCEPT !.results.failed = @ + 1,
              !.results.errors = Append(@, [row |-> i + 1, error |-> message,
                                            data |-> acc.data[i]])]

\* One iteration of the loop of bulkUploadExpenses over data[i - 1]. The text
\* cells of the inputs carry no surrounding blanks, so that trim() leaves
\* cardNumber, particulars and currency as they are; a row's error is reported
\* under its sheet row number i + 1 (the header is row 1). acc carries the
\* loop's variables, the time of the request (clock) and the call of a
\* collaborator that throws in this request (fault = [at, stage]: for row `at`
\* the rate lookup "rate", findOne "find", save "save" or create "create").
ProcessRow(acc, row, i) ==
  LET cardNumber == row.cardNumber
      cardAssignedTo == row.cardAssignedTo
      statusRaw == IF row.status = "" THEN "Active" ELSE row.status
      statusNorm == normalizeEnum(statusRaw, statusMap, allowedStatus)
      status == IF statusNorm = Null THEN "Active" ELSE statusNorm
      amount == row.amount
      typeOfService == normalizeEnum(row.typeOfService, typeMap, allowedTypes)
      businessUnit == normalizeBU(row.businessUnit)
      costCenter == normalizeEnum(row.costCenter, costCenterMap, allowedCostCenters)
      approvedBy == normalizeEnum(row.approvedBy, approvedByMap, allowedApprovedBy)
      recurringRaw == IF row.recurring = "" THEN "One-time" ELSE row.recurring
      recurring == IF recurringRaw \in DOMAIN recurringMap THEN recurringMap[recurringRaw]
                   ELSE "One-time"
      parsed == parseSharedAllocations(row.shared)
      isShared0 == parseBoolean(row.isShared) \/ Len(parsed) > 0
      withPrimary == IF HasBU(parsed, businessUnit) THEN parsed
                     ELSE Append(parsed, [businessUnit |-> businessUnit, amount |-> 0])
      totalShared == SumAmounts(withPrimary)
      kept == SelectSeq(withPrimary,
                        LAMBDA item : item.businessUnit # Null /\ JsGe(item.amount, 0))
      sharedAllocations == IF isShared0 THEN kept ELSE <<>>
      isShared == isShared0 /\ Len(kept) > 0
      dateMissing == row.date.kind = "blank" \/ (row.date.kind = "serial" /\ row.date.v = 0 /\ row.date.frac = 0)
      missing == \/ cardNumber = "" \/ cardAssignedTo = "" \/ dateMissing
                 \/ row.particulars = "" \/ IsNaN(amount) \/ businessUnit = Null
      enumErrors == \/ typeOfService = Null \/ businessUnit = Null
                    \/ costCenter = Null \/ approvedBy = Null
      parsedDate == parseDateValue(row.date)
      providedRate == row.xe
      fetchRate == providedRate = 0 \/ IsNaN(providedRate)
      rate == IF fetchRate THEN convertToINR(amount, row.currency).rate ELSE providedRate
      providedInINR == row.inr
      amountInINR == IF providedInINR # 0 /\ ~IsNaN(providedInINR) THEN providedInINR
                     ELSE amount * rate
      Throws(stage) == acc.fault.at = i /\ acc.fault.stage = stage
      nextRenewalDate == NextRenewalDate(recurring, parsedDate)
      fields == [cardNumber |-> cardNumber, date |-> parsedDate,
                 particulars |-> row.particulars, businessUnit |-> businessUnit,
                 amount |-> amount, currency |-> row.currency,
                 xeRate |-> rate, amountInINR |-> amountInINR, status |-> status,
                 serviceHandler |-> row.serviceHandler, recurring |-> recurring,
                 entryStatus |-> "Accepted", duplicateStatus |-> "Unique",
                 nextRenewalDate |-> nextRenewalDate, isShared |-> isShared,
                 sharedAllocations |-> sharedAllocations]
      duplicateEntry == FindDuplicate(acc.store, KeyOf(fields))
  IN  IF isShared0 /\ JsGt(totalShared, amount)
        THEN RowFailed(acc, i, "Shared allocations exceed total amount")
      ELSE IF missing THEN RowFailed(acc, i, "Missing required fields")
      ELSE IF enumErrors THEN RowFailed(acc, i, "Invalid enum")
      ELSE IF parsedDate = NullDate THEN RowFailed(acc, i, "Invalid date")
      ELSE IF fetchRate /\ Throws("rate") THEN RowFailed(acc, i, "rate lookup failed")
      ELSE IF Throws("find") THEN RowFailed(acc, i, "store error")
      ELSE IF duplicateEntry # 0
        THEN IF acc.store[duplicateEntry].duplicateStatus # "Merged" /\ Throws("save")
             THEN RowFailed([acc EXCEPT !.results.merged = @ + 1], i, "store error")
             ELSE [acc EXCEPT !.store = MarkMerged(@, duplicateEntry, acc.clock),
                              !.results.merged = @ + 1,
                              !.results.success = @ + 1]
      ELSE IF Throws("create")
        THEN RowFailed([acc EXCEPT !.results.unique = @ + 1], i, "store error")
      ELSE [acc EXCEPT !.store = Insert(@, acc.nextId, NewEntry(acc.nextId, fields)),
                       !.nextId = @ + 1,
                       !.results.unique = @ + 1,
                       !.results.success = @ + 1]

\* Variant: the first row that fails ends the loop
RECURSIVE IngestRowsStopAtFailure(_, _, _)
IngestRowsStopAtFailure(acc, data, i) ==
  IF i > Len(data) \/ acc.results.failed > 0 THEN acc
  ELSE IngestRowsStopAtFailure(ProcessRow(acc, data[i], i), data, i + 1)

RECURSIVE IngestRows(_, _, _)
\* for (let i = 0; i < data.length; i++) { ... }
IngestRows(acc, data, i) ==
  IF i > Len(data) THEN acc ELSE IngestRows(ProcessRow(acc, data[i], i), data, i + 1)

\* POST /api/expenses/bulk-upload with the extracted rows `data`
bulkUploadExpenses(data, fault) ==
  IF Len(data) = 0
  THEN /\ last' = Answer("bulkUpload", 400, <<>>, NoResults)
       /\ UNCHANGED <<env, running, store, nextId, renewalLog, outbox, now>>
  ELSE LET start == [store |-> store, nextId |-> nextId,
                     results |-> [NoResults EXCEPT !.total = Len(data)],
                     clock |-> now, fault |-> fault, data |-> data]
       IN  \E end \in {IngestRows(start, data, 1)} :
             /\ end.nextId <= MaxEntries + 1
             /\ store' = end.store
             /\ nextId' = end.nextId
             /\ last' = Answer("bulkUpload", 200, <<>>, end.results)
             /\ UNCHANGED <<env, running, renewalLog, outbox, now>>

(* ------------------------ single-record requests ---------------------- *)
\* The users of the set `idxs`, in natural order, each sent one message
MsgsTo(idxs, channel, type, entry, renewalDate) ==
  [k \in 1..Cardinality(idxs) |->
     LET i == CHOOSE x \in idxs : Cardinality({j \in idxs : j < x}) = k - 1
     IN  Msg(channel, type, UserList[i].id, entry, renewalDate)]

\* Variant: the role of the creating user is not looked at
CreatedDuplicateStatusAnyRole(role) == "Unique"

\* duplicateStatus of a record made by createExpenseEntry for a user of `role`
CreatedDuplicateStatus(role) ==
  IF role \in {"mis_manager", "super_admin"} THEN "Unique" ELSE Null

\* POST /api/expenses with req.body = body, req.user = UserList[u]
createExpenseEntry(body, u) ==
  LET user == UserList[u]
      converted == convertToINR(body.amount, body.currency)
      sharedPayload == validateSharedAllocations(body.isShared, body.sharedAllocations,
                                                 body.amount, body.businessUnit)
      nextRenewalDate == NextRenewalDate(body.recurring, body.date)
      duplicateEntry == FindDuplicate(store, KeyOf(body))
      privileged == user.role \in {"mis_manager", "super_admin", "business_unit_admin", "spoc"}
      entryStatus == IF privileged THEN "Accepted" ELSE "Pending"
      fields == [cardNumber |-> body.cardNumber, date |-> body.date,
                 particulars |-> body.particulars, businessUnit |-> body.businessUnit,
                 amount |-> body.amount, currency |-> body.currency,
                 xeRate |-> converted.rate, amountInINR |-> converted.amountInINR,
                 status |-> body.status,
                 serviceHandler |-> body.serviceHandler, recurring |-> body.recurring,
                 entryStatus |-> entryStatus,
                 duplicateStatus |-> CreatedDuplicateStatus(user.role),
                 nextRenewalDate |-> nextRenewalDate, isShared |-> sharedPayload.isShared,
                 sharedAllocations |-> sharedPayload.sharedAllocations]
      admins == {i \in UserByRole("business_unit_admin") :
                   UserList[i].businessUnit = user.businessUnit}
      spocMsgs == IF user.role = "spoc"
                  THEN MsgsTo(admins, "notification", "entry_approved", nextId, nextRenewalDate)
                       \o MsgsTo(admins, "email", "bu_entry_notice", nextId, nextRenewalDate)
                  ELSE <<>>
      misMsgs == IF entryStatus = "Accepted"
                 THEN MsgsTo(UserByRole("mis_manager"), "email", "mis_notification",
                             nextId, nextRenewalDate)
                 ELSE <<>>
  IN  IF user.role \in {"spoc", "business_unit_admin"} /\ body.businessUnit # user.businessUnit
        THEN /\ last' = Answer("create", 403, <<>>, NoResults)
             /\ UNCHANGED <<env, running, store, nextId, renewalLog, outbox, now>>
      ELSE IF ~sharedPayload.ok
        THEN /\ last' = Answer("create", 400, <<>>, NoResults)
             /\ UNCHANGED <<env, running, store, nextId, renewalLog, outbox, now>>
      ELSE IF duplicateEntry # 0
        THEN /\ store' = MarkMerged(store, duplicateEntry, now)
             /\ last' = Answer("create", 200, <<>>, NoResults)
             /\ UNCHANGED <<env, running, nextId, renewalLog, outbox, now>>
      ELSE /\ nextId <= MaxEntries
           /\ store' = Insert(store, nextId, NewEntry(nextId, fields))
           /\ nextId' = nextId + 1
           /\ outbox' = outbox \cup MsgSet(spocMsgs \o misMsgs)
           /\ last' = Answer("create", 201, spocMsgs \o misMsgs, NoResults)
           /\ UNCHANGED <<env, running, renewalLog, now>>

\* findByIdAndUpdate(id, body): the fields of the body replace the record's
ApplyBody(e, body) == [f \in DOMAIN e |-> IF f \in DOMAIN body THEN body[f] ELSE e[f]]

\* Variant: the status the record had is not looked at
statusSetToDeactive(body, previousStatus) ==
  "status" \in DOMAIN body /\ body.status = "Deactive"

\* req.body.status === 'Deactive' && previousStatus !== 'Deactive'
statusMovedToDeactive(body, previousStatus) ==
  "status" \in DOMAIN body /\ body.status = "Deactive" /\ previousStatus # "Deactive"

\* Variant: the body is written to the record before it is validated
updateExpenseEntryWritesFirst(id, body, u) ==
  IF id \notin DOMAIN store
  THEN /\ last' = Answer("update", 404, <<>>, NoResults)
       /\ UNCHANGED <<env, running, store, nextId, renewalLog, outbox, now>>
  ELSE LET validates == "isShared" \in DOMAIN body \/ "sharedAllocations" \in DOMAIN body
           Or(f) == IF f \in DOMAIN body THEN body[f] ELSE store[id][f]
           validated == validateSharedAllocations(Or("isShared"), Or("sharedAllocations"),
                                                  Or("amount"), Or("businessUnit"))
       IN  /\ store' = [store EXCEPT ![id] = Touch(ApplyBody(@, body), now)]
           /\ last' = Answer("update", IF validates /\ ~validated.ok THEN 400 ELSE 200,
                             <<>>, NoResults)
           /\ UNCHANGED <<env, running, nextId, renewalLog, outbox, now>>

\* PUT /api/expenses/:id with req.body = body, req.user = UserList[u]
updateExpenseEntry(id, body, u) ==
  IF id \notin DOMAIN store
  THEN /\ last' = Answer("update", 404, <<>>, NoResults)
       /\ UNCHANGED <<env, running, store, nextId, renewalLog, outbox, now>>
  ELSE
    LET expenseEntry == store[id]
        previousStatus == expenseEntry.status
        Or(f) == IF f \in DOMAIN body THEN body[f] ELSE expenseEntry[f]
        validates == "isShared" \in DOMAIN body \/ "sharedAllocations" \in DOMAIN body
        validated == validateSharedAllocations(Or("isShared"), Or("sharedAllocations"),
                                               Or("amount"), Or("businessUnit"))
        disabling == statusMovedToDeactive(body, previousStatus)
        body1 == IF validates
                 THEN [isShared |-> validated.isShared,
                       sharedAllocations |-> validated.sharedAllocations] @@ body
                 ELSE body
        recalculates == \/ "amount" \in DOMAIN body /\ body.amount # 0 /\ ~IsNaN(body.amount)
                        \/ "currency" \in DOMAIN body /\ body.currency # ""
        amount == IF "amount" \in DOMAIN body /\ body.amount # 0 /\ ~IsNaN(body.amount)
                  THEN body.amount ELSE expenseEntry.amount
        currency == IF "currency" \in DOMAIN body /\ body.currency # ""
                    THEN body.currency ELSE expenseEntry.currency
        converted == convertToINR(amount, currency)
        body1b == IF recalculates
                  THEN [xeRate |-> converted.rate, amountInINR |-> converted.amountInINR] @@ body1
                  ELSE body1
        body2 == IF disabling THEN [disabledAt |-> now] @@ body1b ELSE body1b
        logs == disabling /\ UserList[u].role \in {"mis_manager", "super_admin"}
    IN  IF validates /\ ~validated.ok
        THEN /\ last' = Answer("update", 400, <<>>, NoResults)
             /\ UNCHANGED <<env, running, store, nextId, renewalLog, outbox, now>>
        ELSE /\ logs => Len(renewalLog) < MaxLog
             /\ store' = [store EXCEPT ![id] = Touch(ApplyBody(@, body2), now)]
             /\ renewalLog' = IF logs
                              THEN Append(renewalLog, [expenseEntry |-> id,
                                                       action |-> "DisableByMIS",
                                                       renewalDate |-> now])
                              ELSE renewalLog
             /\ last' = Answer("update", 200, <<>>, NoResults)
             /\ UNCHANGED <<env, running, nextId, outbox, now>>

\* Variant: the RenewalLog records of the deleted entry are deleted with it
deleteExpenseEntryCascades(id) ==
  IF id \notin DOMAIN store
  THEN /\ last' = Answer("delete", 404, <<>>, NoResults)
       /\ UNCHANGED <<env, running, store, nextId, renewalLog, outbox, now>>
  ELSE /\ store' = [i \in DOMAIN store \ {id} |-> store[i]]
       /\ renewalLog' = SelectSeq(renewalLog, LAMBDA record : record.expenseEntry # id)
       /\ last' = Answer("delete", 200, <<>>, NoResults)
       /\ UNCHANGED <<env, running, nextId, outbox, now>>

\* DELETE /api/expenses/:id
deleteExpenseEntry(id) ==
  IF id \notin DOMAIN store
  THEN /\ last' = Answer("delete", 404, <<>>, NoResults)
       /\ UNCHANGED <<env, running, store, nextId, renewalLog, outbox, now>>
  ELSE /\ store' = [i \in DOMAIN store \ {id} |-> store[i]]
       /\ last' = Answer("delete", 200, <<>>, NoResults)
       /\ UNCHANGED <<env, running, nextId, renewalLog, outbox, now>>

\* Variant: every non-empty duplicateStatus parameter becomes a condition
DuplicateStatusFilterAnyValue(duplicateStatus) == duplicateStatus # ""

\* if (duplicateStatus && ['Merged', 'Unique'].includes(duplicateStatus)):
\* the parameter becomes a condition of the query
DuplicateStatusFilter(duplicateStatus) ==
  duplicateStatus # "" /\ duplicateStatus \in {"Merged", "Unique"}

\* The query getExpenseEntries builds from req.query = q and req.user = user,
\* as a predicate of a record. q carries the parameters businessUnit, status,
\* recurring, isShared, duplicateStatus and search, "" for one the request
\* omits, and disableStartDate as the instant parseFilterDate makes of it, NullDate when
\* omitted; the requests carry none of the other parameters.

\* regex.test(text) for {$regex: search, $options: 'i'}: the text holds the
\* search text, whatever the case of its letters. SearchHits gives, for each
\* search text of the requests, the texts of the records that hold it
SearchHits ==
  ("figma" :> {"Figma"}) @@ ("chat" :> {"ChatGPT"}) @@ ("asha" :> {"Asha Rao"})

RegexTest(search, text) == search \in DOMAIN SearchHits /\ text \in SearchHits[search]

\* searchClause: the fields the list searches (the export searches
\* cardAssignedTo as well); no record of the inputs carries a narration, and
\* no search text of the requests occurs in the name on a card
SearchClauses(search, e) ==
  \/ RegexTest(search, e.particulars)
  \/ RegexTest(search, e.cardNumber)
  \/ RegexTest(search, e.serviceHandler)

\* disableClauses: {disabledAt: range} and {status: 'Deactive', updatedAt:
\* range}. The range of the requests has no end and starts no later than the
\* first instant of the clock, so that updatedAt, which every write sets,
\* lies in it.
DisableClauses(q, e) ==
  \/ e.disabledAt # NullDate /\ e.disabledAt >= q.disableStartDate
  \/ e.status = "Deactive"

\* `if (disableStartDate || disableEndDate) { ... }` and `if (search) { ... }`:
\* the default of status, and query.$or, the one array to which both blocks
\* add their clauses
DisableRangeMatches(q, e) ==
  /\ (q.disableStartDate # NullDate /\ q.status = "") => e.status = "Deactive"
  /\ (q.disableStartDate # NullDate \/ q.search # "") =>
       \/ q.disableStartDate # NullDate /\ DisableClauses(q, e)
       \/ q.search # "" /\ SearchClauses(q.search, e)

QueryMatches(q, user, e) ==
  /\ user.role \in {"business_unit_admin", "spoc", "service_handler"}
       => (q.businessUnit # "" \/ e.businessUnit = user.businessUnit)
  /\ user.role = "service_handler"
       => NameTokens(e.serviceHandler) \cap NameTokens(user.name) # {}
  /\ q.businessUnit # "" => e.businessUnit = q.businessUnit
  /\ q.status # "" => e.status = q.status
  /\ q.recurring # "" => e.recurring = q.recurring
  /\ q.isShared = "true" => e.isShared
  /\ q.isShared = "false" => ~e.isShared
  /\ DuplicateStatusFilter(q.duplicateStatus) => e.duplicateStatus = q.duplicateStatus
  /\ DisableRangeMatches(q, e)
  /\ (user.role # "spoc" /\ q.disableStartDate = NullDate) => e.entryStatus = "Accepted"

\* The query object exportExpenses builds from req.query = q and req.user = user
ExportMatches(q, user, e) ==
  /\ user.role \in {"business_unit_admin", "spoc", "service_handler"}
       => e.businessUnit = user.businessUnit
  /\ user.role = "service_handler"
       => NameTokens(e.serviceHandler) \cap NameTokens(user.name) # {}
  /\ (user.role \notin {"business_unit_admin", "spoc", "service_handler"} /\ q.businessUnit # "")
       => e.businessUnit = q.businessUnit
  /\ q.status # "" => e.status = q.status
  /\ q.recurring # "" => e.recurring = q.recurring
  /\ q.isShared = "true" => e.isShared
  /\ q.isShared = "false" => ~e.isShared
  /\ DuplicateStatusFilter(q.duplicateStatus) => e.duplicateStatus = q.duplicateStatus
  /\ DisableRangeMatches(q, e)
  /\ (user.role # "spoc" /\ q.disableStartDate = NullDate) => e.entryStatus = "Accepted"

\* .sort({date: -1}): latest date first, records of one date in natural order
RECURSIVE SortByDateDesc(_, _)
SortByDateDesc(st, ids) ==
  IF ids = {} THEN <<>>
  ELSE LET first == CHOOSE i \in ids :
                      \A j \in ids : st[i].date > st[j].date \/ (st[i].date = st[j].date /\ i <= j)
       IN  <<first>> \o SortByDateDesc(st, ids \ {first})

\* GET /api/expenses with req.query = q, req.user = UserList[u]; the answer
\* carries count and the ids of data
getExpenseEntries(q, u) ==
  LET expenseEntries ==
        SortByDateDesc(store, {i \in DOMAIN store : QueryMatches(q, UserList[u], store[i])})
  IN  /\ last' = Answer("list", 200, <<>>,
                        [count |-> Len(expenseEntries), data |-> expenseEntries])
      /\ UNCHANGED <<env, running, store, nextId, renewalLog, outbox, now>>

\* GET /api/expenses/export with req.query = q (no limit), req.user =
\* UserList[u]; the answer carries the ids of the rows of the sheet
exportExpenses(q, u) ==
  LET expenses ==
        SortByDateDesc(store, {i \in DOMAIN store : ExportMatches(q, UserList[u], store[i])})
  IN  /\ last' = Answer("export", 200, <<>>, [count |-> Len(expenses), data |-> expenses])
      /\ UNCHANGED <<env, running, store, nextId, renewalLog, outbox, now>>

(* ------------------------------- clock -------------------------------- *)
\* The first renewal date of the lifecycle rows: 2025-02-05T00:00Z
BaseRenewal == At(DaysFromCivil(2025, 2, 5), 0)

RECURSIVE RenewalOfCycle(_)
RenewalOfCycle(k) == IF k = 0 THEN BaseRenewal ELSE SetMonthPlusOne(RenewalOfCycle(k - 1))

ReminderDays == 5
AutoCancelDays == 2

\* The instants at which requests and job runs are observed: 2025-01-06 at
\* midday, then for each monthly cycle the midday of the reminder day, of the
\* auto-cancel day and of the renewal day
ClockPoint(i) ==
  IF i = 0 THEN At(DaysFromCivil(2025, 1, 6), 1)
  ELSE LET renewal == RenewalOfCycle((i - 1) \div 3)
           phase == (i - 1) % 3
       IN  CASE phase = 0 -> At(DayOf(renewal) - ReminderDays, 1)
             [] phase = 1 -> At(DayOf(renewal) - AutoCancelDays, 1)
             [] OTHER -> At(DayOf(renewal), 1)

(* --------------------------- scheduled jobs --------------------------- *)
\* Variant: only a Cancel counts as a response
hasRenewalActionCancelOnly(log, entryId, renewalDate) ==
  IF renewalDate = NullDate THEN FALSE
  ELSE \E i \in 1..Len(log) :
         /\ log[i].expenseEntry = entryId
         /\ log[i].renewalDate = renewalDate
         /\ log[i].action = "Cancel"

\* hasRenewalAction(entryId, renewalDate)
hasRenewalAction(log, entryId, renewalDate) ==
  IF renewalDate = NullDate THEN FALSE
  ELSE \E i \in 1..Len(log) :
         /\ log[i].expenseEntry = entryId
         /\ log[i].renewalDate = renewalDate
         /\ log[i].action \in {"Continue", "Cancel", "DisableByMIS"}

\* nextRenewalDate: {$gte: start of day(now + days), $lte: end of that day}
InWindow(renewalDate, clock, days) ==
  renewalDate # NullDate /\ DayOf(renewalDate) = DayOf(clock) + days

\* fault = [at, stage]: the call of a collaborator that throws in a job run:
\* the first query of the job (stage "find"), sending the e-mail (stage "email")
\* or persisting the notification (stage "notify") of the entry `at`, the rate
\* lookup (stage "rate") or the updateMany (stage "write") of the at-th
\* currency; NoFault: nothing throws
NoFault == [at |-> 0, stage |-> "none"]

\* The ids of `ids` in natural order
RECURSIVE InOrder(_)
InOrder(ids) ==
  IF ids = {} THEN <<>>
  ELSE LET first == CHOOSE i \in ids : \A j \in ids : i <= j
       IN  <<first>> \o InOrder(ids \ {first})

\* The candidates of the reminder job
ReminderCandidates(st, clock) ==
  {i \in DOMAIN st :
     /\ InWindow(st[i].nextRenewalDate, clock, ReminderDays)
     /\ st[i].status = "Active"
     /\ st[i].entryStatus = "Accepted"
     /\ st[i].renewalNotificationSent = FALSE}

\* Variant: the reminder is sent, renewalNotificationSent is not saved
RemindEntryKeepsFlag(acc, id, log, fault) ==
  LET entry == acc.store[id]
      serviceHandler == FindHandler(entry.serviceHandler, entry.businessUnit)
      email == Msg("email", "renewal_reminder", UserList[serviceHandler].id, id,
                   entry.nextRenewalDate)
      notification == Msg("notification", "renewal_reminder", UserList[serviceHandler].id, id,
                          entry.nextRenewalDate)
  IN  IF acc.threw THEN acc
      ELSE IF hasRenewalAction(log, id, entry.nextRenewalDate) THEN acc
      ELSE IF serviceHandler = 0 THEN acc
      ELSE [acc EXCEPT !.sent = @ \o <<email, notification>>]

\* The body of `for (const entry of upcomingRenewals)` for one entry
RemindEntry(acc, id, log, fault) ==
  LET entry == acc.store[id]
      serviceHandler == FindHandler(entry.serviceHandler, entry.businessUnit)
      email == Msg("email", "renewal_reminder", UserList[serviceHandler].id, id,
                   entry.nextRenewalDate)
      notification == Msg("notification", "renewal_reminder", UserList[serviceHandler].id, id,
                          entry.nextRenewalDate)
  IN  IF acc.threw THEN acc
      ELSE IF hasRenewalAction(log, id, entry.nextRenewalDate) THEN acc
      ELSE IF serviceHandler = 0 THEN acc
      ELSE IF fault.at = id /\ fault.stage = "email" THEN [acc EXCEPT !.threw = TRUE]
      ELSE IF fault.at = id /\ fault.stage = "notify"
        THEN [acc EXCEPT !.threw = TRUE, !.sent = Append(@, email)]
      ELSE [acc EXCEPT !.sent = @ \o <<email, notification>>,
                       !.store[id].renewalNotificationSent = TRUE]

RECURSIVE RemindAll(_, _, _, _)
RemindAll(acc, ids, log, fault) ==
  IF ids = <<>> THEN acc
  ELSE RemindAll(RemindEntry(acc, Head(ids), log, fault), Tail(ids), log, fault)

\* The state a job run starts from, and a run whose first query throws
JobStart == [store |-> store, sent |-> <<>>, threw |-> FALSE]
FindThrows == [store |-> store, sent |-> <<>>, threw |-> TRUE]

\* runRenewalRemindersOnce(): the store it leaves, the messages it sent and
\* whether it threw
runRenewalRemindersOnce(fault) ==
  IF fault.stage = "find" THEN FindThrows
  ELSE RemindAll(JobStart, InOrder(ReminderCandidates(store, now)), renewalLog, fault)

\* Variant: the notice does not wait for the reminder
AutoCancelCandidatesNoReminder(st, clock) ==
  {i \in DOMAIN st :
     /\ InWindow(st[i].nextRenewalDate, clock, AutoCancelDays)
     /\ st[i].status = "Active"
     /\ st[i].entryStatus = "Accepted"
     /\ st[i].autoCancellationNotificationSent = FALSE}

\* The candidates of the auto-cancellation notice job
AutoCancelCandidates(st, clock) ==
  {i \in DOMAIN st :
     /\ InWindow(st[i].nextRenewalDate, clock, AutoCancelDays)
     /\ st[i].status = "Active"
     /\ st[i].entryStatus = "Accepted"
     /\ st[i].renewalNotificationSent = TRUE
     /\ st[i].autoCancellationNotificationSent = FALSE}

\* The body of `for (const entry of candidates)` for one entry
NoticeEntry(acc, id, log, fault) ==
  LET entry == acc.store[id]
      handlerUser == FindHandler(entry.serviceHandler, entry.businessUnit)
      misManagers == UserByRole("mis_manager")
      superAdmins == UserByRole("super_admin")
      emails == (IF handlerUser # 0
                 THEN <<Msg("email", "auto_cancel_notice", UserList[handlerUser].id, id,
                            entry.nextRenewalDate)>>
                 ELSE <<>>)
                \o MsgsTo(misManagers, "email", "auto_cancel_notice", id, entry.nextRenewalDate)
      notifications ==
        MsgsTo(misManagers, "notification", "service_cancellation", id, entry.nextRenewalDate)
        \o MsgsTo(superAdmins, "notification", "service_cancellation", id, entry.nextRenewalDate)
  IN  IF acc.threw THEN acc
      ELSE IF hasRenewalAction(log, id, entry.nextRenewalDate) THEN acc
      ELSE IF fault.at = id /\ fault.stage = "email" THEN [acc EXCEPT !.threw = TRUE]
      ELSE IF fault.at = id /\ fault.stage = "notify"
        THEN [acc EXCEPT !.threw = TRUE, !.sent = @ \o emails]
      ELSE [acc EXCEPT !.sent = @ \o emails \o notifications,
                       !.store[id].autoCancellationNotificationSent = TRUE]

RECURSIVE NoticeAll(_, _, _, _)
NoticeAll(acc, ids, log, fault) ==
  IF ids = <<>> THEN acc
  ELSE NoticeAll(NoticeEntry(acc, Head(ids), log, fault), Tail(ids), log, fault)

\* runAutoCancellationNoticesOnce()
runAutoCancellationNoticesOnce(fault) ==
  IF fault.stage = "find" THEN FindThrows
  ELSE NoticeAll(JobStart, InOrder(AutoCancelCandidates(store, now)), renewalLog, fault)

\* The candidates of the rollover job
ResetCandidates(st, clock) ==
  {i \in DOMAIN st :
     /\ st[i].nextRenewalDate # NullDate
     /\ st[i].nextRenewalDate < clock
     /\ st[i].renewalNotificationSent = TRUE}

\* Variant: the flag is reset, the date is not advanced
ResetEntryFlagOnly(entry, t) == [entry EXCEPT !.renewalNotificationSent = FALSE]

\* The $set of one bulkOps element
ResetEntry(entry, t) ==
  LET nextDate == IF entry.recurring = "Monthly" THEN SetMonthPlusOne(entry.nextRenewalDate)
                  ELSE IF entry.recurring = "Yearly"
                    THEN SetFullYearPlusOne(entry.nextRenewalDate)
                  ELSE entry.nextRenewalDate
  IN  Touch([entry EXCEPT !.nextRenewalDate = nextDate, !.renewalNotificationSent = FALSE], t)

\* runRenewalFlagResetOnce()
runRenewalFlagResetOnce(fault) ==
  LET candidates == ResetCandidates(store, now)
  IN  IF fault.stage = "find" THEN FindThrows
      ELSE [JobStart EXCEPT !.store = [i \in DOMAIN store |->
                                       IF i \in candidates THEN ResetEntry(store[i], now)
                                       ELSE store[i]]]

\* parseInt(process.env.AUTO_DELETE_REJECTED_DAYS, 10) || 3
DefaultDeleteDays == 3
ParseInt == ("0" :> 0) @@ ("1" :> 1) @@ ("2" :> 2)
DeleteDays ==
  LET text == env.AUTO_DELETE_REJECTED_DAYS
      parsed == IF text \in DOMAIN ParseInt THEN ParseInt[text] ELSE NaN
  IN  IF IsNaN(parsed) \/ parsed = 0 THEN DefaultDeleteDays ELSE parsed

\* Variant: the age of the record is not looked at
CleanupMatchesAnyAge(st, clock) == {i \in DOMAIN st : st[i].entryStatus = "Rejected"}

\* The records deleteMany({entryStatus: 'Rejected', updatedAt: {$lte: cutoffDate}})
\* matches; cutoffDate.setDate(getDate() - deleteDays) keeps the time of day
CleanupMatches(st, clock) ==
  {i \in DOMAIN st :
     /\ st[i].entryStatus = "Rejected"
     /\ st[i].updatedAt <= clock - DeleteDays * TicksPerDay}

\* deleteMany(filter): the store without the records the filter matches
DeleteMany(st, matches) == [i \in DOMAIN st \ matches |-> st[i]]

\* runRejectedEntriesCleanupOnce()
runRejectedEntriesCleanupOnce(fault) ==
  IF fault.stage = "find" THEN FindThrows
  ELSE [JobStart EXCEPT !.store = DeleteMany(store, CleanupMatches(store, now))]

\* ExpenseEntry.distinct('currency'): the currencies of the records, each
\* once, in the order of their first record
RECURSIVE Distinct(_, _)
Distinct(st, ids) ==
  IF ids = <<>> THEN <<>>
  ELSE LET rest == Distinct(st, Tail(ids))
           c == st[Head(ids)].currency
       IN  <<c>> \o SelectSeq(rest, LAMBDA x : x # c)

\* Variant: the rate is stored, the INR amount is left as it was
RefreshEntryRateOnly(entry, rate, t) == Touch([entry EXCEPT !.xeRate = rate], t)

\* The $set of updateMany for one record of the currency
RefreshEntry(entry, rate, t) ==
  Touch([entry EXCEPT !.xeRate = rate, !.amountInINR = entry.amount * rate], t)

\* The body of `for (const currency of currencies)` for the k-th currency
RECURSIVE RefreshAll(_, _, _, _)
RefreshAll(acc, currencies, k, fault) ==
  IF k > Len(currencies) \/ acc.threw THEN acc
  ELSE LET currency == currencies[k]
           rate == getExchangeRate(currency)
           updated == [i \in DOMAIN acc.store |->
                         IF acc.store[i].currency = currency
                         THEN RefreshEntry(acc.store[i], rate, now) ELSE acc.store[i]]
       IN  IF fault.at = k /\ fault.stage \in {"rate", "write"}
           THEN [acc EXCEPT !.threw = TRUE]
           ELSE RefreshAll([acc EXCEPT !.store = updated], currencies, k + 1, fault)

\* runExchangeRateRefreshOnce()
runExchangeRateRefreshOnce(fault) ==
  IF fault.stage = "find" THEN FindThrows
  ELSE RefreshAll(JobStart, Distinct(store, InOrder(DOMAIN store)), 1, fault)

\* The job function of each trigger path
Jobs == {"reminders", "cleanup", "flagReset", "refresh", "autoCancel"}

JobRun(job, fault) ==
  CASE job = "reminders" -> runRenewalRemindersOnce(fault)
    [] job = "cleanup" -> runRejectedEntriesCleanupOnce(fault)
    [] job = "flagReset" -> runRenewalFlagResetOnce(fault)
    [] job = "refresh" -> runExchangeRateRefreshOnce(fault)
    [] job = "autoCancel" -> runAutoCancellationNoticesOnce(fault)

\* What a run reports: the cleanup logs result.deletedCount, the other jobs
\* report no number on the store
JobReport(job, end) ==
  IF job = "cleanup" /\ ~end.threw
  THEN [deletedCount |-> Cardinality(DOMAIN store \ DOMAIN end.store)]
  ELSE NoResults

\* verifyCronAuth: next() is called
verifyCronAuth(token) ==
  IF env.CRON_SECRET # Null /\ env.CRON_SECRET # ""
  THEN token = env.CRON_SECRET
  ELSE TRUE

\* Variant: the outcome of the job is not looked at
wrapAlwaysNoContent(threw) == 204

\* wrap(fn): sendStatus(204), or status(500) from the catch
wrap(threw) == IF threw THEN 500 ELSE 204

\* POST /_cron/<job> with the header x-cron-token = token (Null: no header)
cronTrigger(job, token, fault) ==
  IF ~verifyCronAuth(token)
  THEN /\ last' = Answer(job, 401, <<>>, NoResults)
       /\ UNCHANGED <<env, running, store, nextId, renewalLog, outbox, now>>
  ELSE LET end == JobRun(job, fault)
       IN  /\ store' = end.store
           /\ outbox' = outbox \cup MsgSet(end.sent)
           /\ last' = Answer(job, wrap(end.threw), end.sent, JobReport(job, end))
           /\ UNCHANGED <<env, running, nextId, renewalLog, now>>

\* The callback of cron.schedule for `job`: the error of a run that throws is
\* logged, nothing is answered
scheduledRun(job, fault) ==
  LET end == JobRun(job, fault)
  IN  /\ env.ENABLE_IN_APP_CRON = "true"
      /\ store' = end.store
      /\ outbox' = outbox \cup MsgSet(end.sent)
      /\ last' = Answer(job, 0, end.sent, JobReport(job, end))
      /\ UNCHANGED <<env, running, nextId, renewalLog, now>>

(* ----------------------- interleaved invocations --------------------- *)
\* A job function is async: between its query and each write of its loop other
\* invocations run. running[p] is the invocation p of a job: the documents its
\* query answered and has not yet processed, the messages it has sent, and
\* whether another invocation was in progress at any time since it began.
Invocations == 1..MaxRuns

Idle == [job |-> "none", docs |-> <<>>, sent |-> <<>>, active |-> FALSE, overlapped |-> FALSE]

OthersActive(p) == \E q \in Invocations \ {p} : running[q].active

\* Variant: the query does not look at the flag of the job
FoundAnyFlag(job) ==
  IF job = "reminders"
  THEN {i \in DOMAIN store :
          /\ InWindow(store[i].nextRenewalDate, now, ReminderDays)
          /\ store[i].status = "Active"
          /\ store[i].entryStatus = "Accepted"}
  ELSE {i \in DOMAIN store :
          /\ InWindow(store[i].nextRenewalDate, now, AutoCancelDays)
          /\ store[i].status = "Active"
          /\ store[i].entryStatus = "Accepted"
          /\ store[i].renewalNotificationSent = TRUE}

\* The ids `await ExpenseEntry.find({...})` of the job answers
Found(job) ==
  IF job = "reminders" THEN ReminderCandidates(store, now) ELSE AutoCancelCandidates(store, now)

\* The invocation p of the job runs up to the answer of its query; the
\* documents are the records as they are now
beginRun(p, job) ==
  LET ids == InOrder(Found(job))
  IN  /\ ~running[p].active
      /\ running' = [q \in Invocations |->
                       IF q = p
                       THEN [job |-> job, docs |-> [k \in 1..Len(ids) |-> store[ids[k]]],
                             sent |-> <<>>, active |-> TRUE, overlapped |-> OthersActive(p)]
                       ELSE IF running[q].active THEN [running[q] EXCEPT !.overlapped = TRUE]
                       ELSE running[q]]
      /\ last' = Answer("begin", 0, <<>>, NoResults)
      /\ UNCHANGED <<env, store, nextId, renewalLog, outbox, now>>

\* One pass of the loop of invocation p, on the document it read: the checks
\* and messages come from the document, entry.save() writes the flag the pass
\* has set and no other field
stepRun(p) ==
  LET run == running[p]
      doc == Head(run.docs)
      id == doc._id
      acc == [store |-> [store EXCEPT ![id] = doc], sent |-> <<>>, threw |-> FALSE]
      end == IF run.job = "reminders" THEN RemindEntry(acc, id, renewalLog, NoFault)
             ELSE NoticeEntry(acc, id, renewalLog, NoFault)
      saved == end.store[id]
  IN  /\ run.active
      /\ run.docs # <<>>
      /\ store' = IF saved = doc THEN store
                  ELSE [store EXCEPT ![id] = Touch(
                          [@ EXCEPT !.renewalNotificationSent =
                                      IF saved.renewalNotificationSent # doc.renewalNotificationSent
                                      THEN saved.renewalNotificationSent ELSE @,
                                    !.autoCancellationNotificationSent =
                                      IF saved.autoCancellationNotificationSent
                                           # doc.autoCancellationNotificationSent
                                      THEN saved.autoCancellationNotificationSent ELSE @], now)]
      /\ outbox' = outbox \cup MsgSet(end.sent)
      /\ running' = [running EXCEPT ![p].docs = Tail(@), ![p].sent = @ \o end.sent]
      /\ last' = Answer("pass", 0, end.sent, NoResults)
      /\ UNCHANGED <<env, nextId, renewalLog, now>>

\* The loop of invocation p is over: the trigger answers
endRun(p) ==
  /\ running[p].active
  /\ running[p].docs = <<>>
  /\ running' = [running EXCEPT ![p] = Idle]
  /\ last' = Answer(running[p].job, wrap(FALSE), running[p].sent, NoResults)
  /\ UNCHANGED <<env, store, nextId, renewalLog, outbox, now>>

\* A handler's or manager's decision on the current cycle of an entry,
\* appended to the RenewalLog
recordRenewalAction(id, action) ==
  /\ id \in DOMAIN store
  /\ store[id].nextRenewalDate # NullDate
  /\ Len(renewalLog) < MaxLog
  /\ renewalLog' = Append(renewalLog, [expenseEntry |-> id, action |-> action,
                                       renewalDate |-> store[id].nextRenewalDate])
  /\ last' = Answer("decision", 200, <<>>, NoResults)
  /\ UNCHANGED <<env, running, store, nextId, outbox, now>>

\* The wall clock moves on by `ticks`
elapse(ticks) ==
  /\ now' = now + ticks
  /\ last' = Answer("clock", 0, <<>>, NoResults)
  /\ UNCHANGED <<env, running, store, nextId, renewalLog, outbox>>

\* The wall clock moves on to a later observed instant
advanceClock(i) ==
  /\ ClockPoint(i) > now
  /\ now' = ClockPoint(i)
  /\ last' = Answer("clock", 0, <<>>, NoResults)
  /\ UNCHANGED <<env, running, store, nextId, renewalLog, outbox>>

(* ------------------------------- inputs ------------------------------- *)
NoShare == [kind |-> "blank", items |-> <<>>]
\* 'Wytlabs: 200, Collabx: 150'
ShareOver == [kind |-> "text", items |-> <<[businessUnit |-> "Wytlabs", amount |-> 200],
                                           [businessUnit |-> "Collabx", amount |-> 150]>>]
\* 'Collabx: 100'
ShareOk == [kind |-> "text", items |-> <<[businessUnit |-> "Collabx", amount |-> 100]>>]

\* 2025-01-05 and 2024-02-05 as spreadsheet serial numbers (45662, 45327)
SerialA == DaysFromCivil(2025, 1, 5) - ExcelEpochDay
SerialB == DaysFromCivil(2024, 2, 5) - ExcelEpochDay

BaseRow ==
  [cardNumber |-> "M003", cardAssignedTo |-> "John Doe",
   date |-> Serial(SerialA, 0), particulars |-> "ChatGPT",
   amount |-> 300, currency |-> "USD", typeOfService |-> "Tool", businessUnit |-> "Wytlabs",
   costCenter |-> "Ops", approvedBy |-> "Raghav", serviceHandler |-> "Asha Rao",
   recurring |-> "Monthly", status |-> "Active", isShared |-> "", shared |-> NoShare,
   xe |-> NaN, inr |-> NaN]

\* The rows of the uploads: one key without allocations and with allocations
\* above its amount, and a second key with allocations within its amount
Rows ==
  {BaseRow, [BaseRow EXCEPT !.shared = ShareOver],
   [BaseRow EXCEPT !.amount = 200, !.shared = ShareOk]}

Batches(rows) == UNION {[1..n -> rows] : n \in 0..MaxRows}

BaseBody ==
  [cardNumber |-> "M003", date |-> excelSerialToDate(Serial(SerialA, 0)), particulars |-> "ChatGPT",
   amount |-> 300, currency |-> "USD", businessUnit |-> "Wytlabs", status |-> "Active",
   serviceHandler |-> "Asha Rao", recurring |-> "One-time", isShared |-> FALSE,
   sharedAllocations |-> <<>>]

\* A body without allocations, one whose allocations exceed its amount but
\* whose isShared is false, and one whose allocations exceed it with isShared true
CreateBodies ==
  {BaseBody,
   [BaseBody EXCEPT !.amount = 200, !.recurring = "Yearly",
                    !.sharedAllocations = ShareOver.items],
   [BaseBody EXCEPT !.recurring = "Yearly", !.isShared = TRUE,
                    !.sharedAllocations = ShareOver.items]}

\* mis_manager, spoc of Wytlabs, spoc of Collabx
Creators == {2, 5, 6}

UpdateBodies ==
  {[amount |-> 50],
   [recurring |-> "One-time"],
   [duplicateStatus |-> "Unique"],
   [sharedAllocations |-> ShareOver.items]}

\* mis_manager
Updaters == {2}

(* ---------------------------- specification --------------------------- *)
\* process.env of a server started without configuration: no CRON_SECRET, no
\* ENABLE_IN_APP_CRON
DefaultEnv ==
  [CRON_SECRET |-> Null, ENABLE_IN_APP_CRON |-> Null, AUTO_DELETE_REJECTED_DAYS |-> Null]

\* The server has started on empty collections
Started ==
  /\ store = <<>>
  /\ nextId = 1
  /\ renewalLog = <<>>
  /\ outbox = {}
  /\ now = ClockPoint(0)
  /\ last = Answer("init", 0, <<>>, NoResults)
  /\ running = [p \in Invocations |-> Idle]

Init == Started /\ env = DefaultEnv

BulkUpload == \E data \in Batches(Rows) : bulkUploadExpenses(data, NoFault)
Create == \E body \in CreateBodies, u \in Creators : createExpenseEntry(body, u)
Update == \E id \in 1..MaxEntries, body \in UpdateBodies, u \in Updaters :
            updateExpenseEntry(id, body, u)
Delete == \E id \in 1..MaxEntries : deleteExpenseEntry(id)

Next == BulkUpload \/ Create \/ Update \/ Delete

Spec == Init /\ [][Next]_vars

(* ------------------------ lifecycle specification --------------------- *)
\* A monthly and a yearly subscription of Wytlabs that renew on 2025-02-05,
\* and a monthly one of Collabx, where no handler is registered
LifecycleRows ==
  {BaseRow,
   [BaseRow EXCEPT !.date = Serial(SerialB, 0), !.recurring = "Yearly"],
   [BaseRow EXCEPT !.businessUnit = "Collabx"]}

LBulkUpload == \E row \in LifecycleRows : bulkUploadExpenses(<<row>>, NoFault)
Decide == \E id \in 1..MaxEntries, action \in {"Continue", "Cancel"} :
            recordRenewalAction(id, action)
Reminders == cronTrigger("reminders", Null, NoFault)
AutoCancel == cronTrigger("autoCancel", Null, NoFault)
FlagReset == cronTrigger("flagReset", Null, NoFault)
Clock == \E i \in 1..MaxClock : advanceClock(i)

NextLifecycle ==
  LBulkUpload \/ Decide \/ Reminders \/ AutoCancel \/ FlagReset \/ Clock

SpecLifecycle == Init /\ [][NextLifecycle]_vars

(* ---------------------- interleaving specification ------------------- *)
\* The monthly subscription of Wytlabs; two invocations of the reminder job
\* and of the auto-cancellation job whose passes interleave
NextInterleaved ==
  \/ bulkUploadExpenses(<<BaseRow>>, NoFault)
  \/ \E id \in 1..MaxEntries, action \in {"Continue", "Cancel"} : recordRenewalAction(id, action)
  \/ \E i \in 1..MaxClock : advanceClock(i)
  \/ \E p \in Invocations, job \in {"reminders", "autoCancel"} : beginRun(p, job)
  \/ \E p \in Invocations : stepRun(p)
  \/ \E p \in Invocations : endRun(p)

SpecInterleaved == Init /\ [][NextInterleaved]_vars

(* --------------------------- jobs specification ----------------------- *)
\* The monthly subscription of Wytlabs with the XE and INR amount of its sheet
JobRows == {[BaseRow EXCEPT !.xe = 75, !.inr = 22500]}

\* Ingest, a rejection by the MIS manager, a Continue of the handler, the
\* five jobs and the clock
NextJobs ==
  \/ \E row \in JobRows : bulkUploadExpenses(<<row>>, NoFault)
  \/ \E id \in 1..MaxEntries : updateExpenseEntry(id, [entryStatus |-> "Rejected"], 2)
  \/ \E id \in 1..MaxEntries : recordRenewalAction(id, "Continue")
  \/ \E job \in Jobs : cronTrigger(job, Null, NoFault)
  \/ \E i \in 1..MaxClock : advanceClock(i)

SpecJobs == Init /\ [][NextJobs]_vars

(* -------------------------- notice specification --------------------- *)
\* The monthly subscription of Wytlabs up to its first renewal: ingest, a
\* Continue, the reminder and the auto-cancellation job, the clock on the
\* reminder day and on the auto-cancel day, and the MIS manager moving the
\* entry to Collabx (where no handler is registered) or deactivating it
NextNotices ==
  \/ bulkUploadExpenses(<<BaseRow>>, NoFault)
  \/ \E id \in 1..MaxEntries : recordRenewalAction(id, "Continue")
  \/ \E id \in 1..MaxEntries, body \in {[businessUnit |-> "Collabx"], [status |-> "Deactive"]} :
       updateExpenseEntry(id, body, 2)
  \/ \E job \in {"reminders", "autoCancel"} : cronTrigger(job, Null, NoFault)
  \/ \E i \in {1, 2} : advanceClock(i)

SpecNotices == Init /\ [][NextNotices]_vars

(* ------------------------ trigger specification ----------------------- *)
\* The deployments: no configuration, and CRON_SECRET set with the in-app
\* scheduler switched on
TriggerEnvs ==
  {DefaultEnv, [DefaultEnv EXCEPT !.CRON_SECRET = "s3cret", !.ENABLE_IN_APP_CRON = "true"]}

\* No x-cron-token header, a wrong one, the right one
Tokens == {Null, "guess", "s3cret"}

\* Nothing throws, the first query of the job throws and, in the refresh job,
\* the rate lookup of the first currency throws
JobFaults(job) ==
  {NoFault, [at |-> 0, stage |-> "find"]}
    \cup (IF job = "refresh" THEN {[at |-> 1, stage |-> "rate"]} ELSE {})

\* A shared subscription of Wytlabs whose sheet carries its own XE and INR
\* amount, and a one-time purchase in EUR
TriggerRows ==
  {[BaseRow EXCEPT !.amount = 200, !.shared = ShareOk, !.xe = 75, !.inr = 15000],
   [BaseRow EXCEPT !.currency = "EUR", !.recurring = "One-time"]}

InitTriggers == Started /\ env \in TriggerEnvs

NextTriggers ==
  \/ \E row \in TriggerRows : bulkUploadExpenses(<<row>>, NoFault)
  \/ \E job \in Jobs, token \in Tokens :
       \E fault \in (IF verifyCronAuth(token) THEN JobFaults(job) ELSE {NoFault}) :
         cronTrigger(job, token, fault)
  \/ \E job \in Jobs : \E fault \in JobFaults(job) : scheduledRun(job, fault)

SpecTriggers == InitTriggers /\ [][NextTriggers]_vars

(* ------------------------- edits specification ------------------------ *)
NoQuery == [businessUnit |-> "", status |-> "", recurring |-> "", isShared |-> "",
            duplicateStatus |-> "", disableStartDate |-> NullDate, search |-> ""]

ListQueries == {[NoQuery EXCEPT !.duplicateStatus = d] : d \in {"", "Merged", "Unique", "Bogus"}}

\* mis_manager, spoc of Wytlabs
Listers == {2, 5}

\* The shared subscription of Wytlabs
EditRows == {[BaseRow EXCEPT !.amount = 200, !.shared = ShareOk]}

\* A move to another business unit, a deactivation, and allocations above
\* the amount of the record
EditBodies ==
  {[businessUnit |-> "DWSG"], [status |-> "Deactive"], [sharedAllocations |-> ShareOver.items]}

\* A request whose allocations exceed its amount, by the MIS manager and by
\* the spoc of Collabx, who may not create for Wytlabs
RefusedBodies ==
  {[BaseBody EXCEPT !.amount = 200, !.isShared = TRUE, !.sharedAllocations = ShareOver.items]}
Refused == {2, 6}

NextEdits ==
  \/ \E row \in EditRows : bulkUploadExpenses(<<row>>, NoFault)
  \/ \E body \in RefusedBodies, u \in Refused : createExpenseEntry(body, u)
  \/ \E id \in 1..MaxEntries, body \in EditBodies, u \in Updaters :
       updateExpenseEntry(id, body, u)
  \/ \E id \in 1..MaxEntries : deleteExpenseEntry(id)
  \/ \E id \in 1..MaxEntries, action \in {"Continue", "Cancel"} :
       recordRenewalAction(id, action)
  \/ \E job \in Jobs : cronTrigger(job, Null, NoFault)
  \/ \E q \in ListQueries, u \in Listers : getExpenseEntries(q, u)

SpecEdits == Init /\ [][NextEdits]_vars

(* ----------------------- retention specification ---------------------- *)
\* A day and a half
RetentionStep == TicksPerDay + (TicksPerDay \div 2)

RetentionEnvs == {DefaultEnv, [DefaultEnv EXCEPT !.AUTO_DELETE_REJECTED_DAYS = "1"]}

\* A second purchase, entered by the MIS manager
RetentionBodies == {[BaseBody EXCEPT !.particulars = "Figma"]}

\* The MIS manager sets the approval state of a record
RetentionUpdateBodies == {[entryStatus |-> "Rejected"], [entryStatus |-> "Pending"]}

InitRetention == Started /\ env \in RetentionEnvs

NextRetention ==
  \/ bulkUploadExpenses(<<BaseRow>>, NoFault)
  \/ \E body \in RetentionBodies : createExpenseEntry(body, 2)
  \/ \E id \in 1..MaxEntries, body \in RetentionUpdateBodies, u \in Updaters :
       updateExpenseEntry(id, body, u)
  \/ \E id \in 1..MaxEntries : deleteExpenseEntry(id)
  \/ \E job \in Jobs : cronTrigger(job, Null, NoFault)
  \/ now + RetentionStep <= ClockPoint(0) + MaxElapse * RetentionStep /\ elapse(RetentionStep)

SpecRetention == InitRetention /\ [][NextRetention]_vars

(* ----------------------- date resolver specification ------------------ *)
\* The DateResolver applied to one cell; the answer carries the cell and the
\* date it resolved to
resolveDate(value) ==
  /\ last' = Answer("parseDate", 0, <<>>, [value |-> value, date |-> parseDateValue(value)])
  /\ UNCHANGED <<env, running, store, nextId, renewalLog, outbox, now>>

\* Whole serials from the epoch on and the two of the uploads; no fractional
\* part, midday, and the last quarter of a second of the day
SerialDays == (0..MaxSerial) \cup {SerialA, SerialB}
SerialFractions == {0, SerialUnit \div 2, SerialUnit - 1}

NextDates == \E v \in SerialDays, frac \in SerialFractions : resolveDate(Serial(v, frac))

SpecDates == Init /\ [][NextDates]_vars

(* ------------------------- faults specification ----------------------- *)
\* A valid row, and rows failing each check of the loop: allocations above the
\* amount, no card number, an unknown type of service, an unreadable date
FaultRows ==
  {BaseRow,
   [BaseRow EXCEPT !.shared = ShareOver],
   [BaseRow EXCEPT !.cardNumber = ""],
   [BaseRow EXCEPT !.typeOfService = "Acme"],
   [BaseRow EXCEPT !.date = [kind |-> "garbage", v |-> 0, frac |-> 0]]}

\* Each of these rows alone, before the valid row and after it
FaultBatches ==
  {<<>>} \cup {<<row>> : row \in FaultRows} \cup {<<row, BaseRow>> : row \in FaultRows}
         \cup {<<BaseRow, row>> : row \in FaultRows}

\* Nothing throws, or one call throws: for the first row the rate lookup,
\* findOne or create, for the second row the save of its duplicate
BulkFaults ==
  {NoFault, [at |-> 1, stage |-> "rate"], [at |-> 1, stage |-> "find"],
   [at |-> 1, stage |-> "create"], [at |-> 2, stage |-> "save"]}

NextFaults ==
  \/ \E data \in FaultBatches, fault \in BulkFaults : bulkUploadExpenses(data, fault)
  \/ \E id \in 1..MaxEntries : deleteExpenseEntry(id)

SpecFaults == Init /\ [][NextFaults]_vars

(* -------------------------- race specification ------------------------ *)
\* A row ingested on its own into an empty store
Alone(row) ==
  ProcessRow([store |-> <<>>, nextId |-> 1, results |-> NoResults,
              clock |-> now, fault |-> NoFault, data |-> <<row>>], row, 1)
ValidRow(row) == Alone(row).results.unique = 1

\* Two uploads of one row each run at once. The handler awaits findOne and
\* then awaits save or create, and another request may run between the two.
\* running[p] is the upload p: docs holds the record its row makes and, after
\* it, the duplicate findOne answered, if there was one.

\* The upload p of the one row, a valid one, runs up to the answer of findOne;
\* record is what the row makes when nothing matches it
beginUpload(p, row) ==
  \E record \in {Alone(row).store[n] : n \in DOMAIN Alone(row).store} :
    \E duplicateEntry \in {FindDuplicate(store, KeyOf(record))} :
      /\ ~running[p].active
      /\ running' = [q \in Invocations |->
                       IF q = p
                       THEN [job |-> "bulkUpload",
                             docs |-> IF duplicateEntry = 0 THEN <<record>>
                                      ELSE <<record, store[duplicateEntry]>>,
                             sent |-> <<>>, active |-> TRUE, overlapped |-> OthersActive(p)]
                       ELSE IF running[q].active THEN [running[q] EXCEPT !.overlapped = TRUE]
                       ELSE running[q]]
      /\ last' = Answer("begin", 0, <<>>, NoResults)
      /\ UNCHANGED <<env, store, nextId, renewalLog, outbox, now>>

\* The upload p goes on from the answer of findOne: it marks the duplicate it
\* was answered Merged, or creates its record, and answers the summary
endUpload(p) ==
  LET run == running[p]
      counted == [NoResults EXCEPT !.total = 1, !.success = 1]
  IN  /\ run.active
      /\ run.job = "bulkUpload"
      /\ IF Len(run.docs) = 2
         THEN /\ store' = IF run.docs[2].duplicateStatus # "Merged"
                          THEN [store EXCEPT ![run.docs[2]._id] =
                                  Touch([@ EXCEPT !.duplicateStatus = "Merged"], now)]
                          ELSE store
              /\ last' = Answer("bulkUpload", 200, <<>>, [counted EXCEPT !.merged = 1])
              /\ UNCHANGED nextId
         ELSE /\ nextId <= MaxEntries
              /\ store' = Insert(store, nextId, [run.docs[1] EXCEPT !._id = nextId])
              /\ nextId' = nextId + 1
              /\ last' = Answer("bulkUpload", 200, <<>>, [counted EXCEPT !.unique = 1])
      /\ running' = [running EXCEPT ![p] = Idle]
      /\ UNCHANGED <<env, renewalLog, outbox, now>>

\* The monthly subscription of Wytlabs and the same purchase made for Collabx
RaceRows == {BaseRow, [BaseRow EXCEPT !.businessUnit = "Collabx"]}

NextRace ==
  \/ \E p \in Invocations, row \in RaceRows : beginUpload(p, row)
  \/ \E p \in Invocations : endUpload(p)
  \/ \E row \in RaceRows : bulkUploadExpenses(<<row>>, NoFault)

SpecRace == Init /\ [][NextRace]_vars

(* -------------------------- rows specification ------------------------ *)
\* The cells of the Date column: '13-02-2025', '02-13-2025', '01/05/25',
\* '01-05-99', '13/02/99', '01-31-2025' and 'soon'
DateCells ==
  {Parts(13, 2, 2025, 4), Parts(2, 13, 2025, 4), Parts(1, 5, 25, 2), Parts(1, 5, 99, 2),
   Parts(13, 2, 99, 2), Parts(1, 31, 2025, 4), [kind |-> "garbage", v |-> 0, frac |-> 0]}

\* The cells of the Recurring and of the Status column ("": no cell)
RecurringCells ==
  {"Monthly", "Yearly", "One-time", "monthly", " Yearly ", "Recurring_M", "Weekly", ""}
StatusCells == {"Active", "Deactive", "Deactive-NextMonth", "Paused", ""}

\* The monthly subscription with each date, each cadence and each status, and
\* the yearly one of 2025-01-31
SheetRows ==
  {[BaseRow EXCEPT !.date = cell] : cell \in DateCells}
    \cup {[BaseRow EXCEPT !.recurring = cell] : cell \in RecurringCells}
    \cup {[BaseRow EXCEPT !.status = cell] : cell \in StatusCells}
    \cup {[BaseRow EXCEPT !.date = Parts(1, 31, 2025, 4), !.recurring = "Yearly"]}

\* The same purchases entered one by one: monthly and yearly on 2025-01-31,
\* yearly and one-time on 2025-01-05
SheetBodies ==
  {[BaseBody EXCEPT !.date = At(DaysFromCivil(2025, 1, 31), 0), !.recurring = "Monthly"],
   [BaseBody EXCEPT !.date = At(DaysFromCivil(2025, 1, 31), 0), !.recurring = "Yearly"],
   [BaseBody EXCEPT !.particulars = "Figma", !.recurring = "Yearly"],
   [BaseBody EXCEPT !.particulars = "Figma"]}

NextRows ==
  \/ \E row \in SheetRows : bulkUploadExpenses(<<row>>, NoFault)
  \/ \E body \in SheetBodies : createExpenseEntry(body, 2)
  \/ \E id \in 1..MaxEntries : deleteExpenseEntry(id)

SpecRows == Init /\ [][NextRows]_vars

(* ---------------------- visibility specification ---------------------- *)
\* A subscription of Wytlabs and one of Collabx
VisibilityRows ==
  {BaseRow, [BaseRow EXCEPT !.particulars = "Figma", !.businessUnit = "Collabx"]}

\* The MIS manager rejects a record or deactivates it
VisibilityBodies == {[entryStatus |-> "Rejected"], [status |-> "Deactive"]}

\* No parameter, a business unit, and a disable-date range from 2025-01-01
VisibilityQueries ==
  {NoQuery, [NoQuery EXCEPT !.businessUnit = "Collabx"],
   [NoQuery EXCEPT !.disableStartDate = At(DaysFromCivil(2025, 1, 1), 0)]}

\* service_handler, business_unit_admin and spoc of Wytlabs, and the MIS manager
Viewers == {1, 2, 4, 5}

NextVisibility ==
  \/ \E row \in VisibilityRows : bulkUploadExpenses(<<row>>, NoFault)
  \/ \E id \in 1..MaxEntries, body \in VisibilityBodies : updateExpenseEntry(id, body, 2)
  \/ \E q \in VisibilityQueries, u \in Viewers : getExpenseEntries(q, u)
  \/ \E q \in VisibilityQueries, u \in Viewers : exportExpenses(q, u)

SpecVisibility == Init /\ [][NextVisibility]_vars

(* ============================== properties ============================ *)
(* Vocabulary of the properties, stated on records, rows and messages.     *)

\* The records of st with the duplicate key `key`
WithKey(st, key) == {i \in DOMAIN st : KeyOf(st[i]) = key}

RowKey(row) == KeyOf(Alone(row).store[1])
ValidRowsOf(data) == {k \in 1..Len(data) : ValidRow(data[k])}
Occurrences(data, key) == Cardinality({k \in ValidRowsOf(data) : RowKey(data[k]) = key})

\* The records a step has created
Created == DOMAIN store' \ DOMAIN store

\* A RenewalLog action recorded for exactly (id, date)
LogHas(log, id, date) ==
  \E k \in 1..Len(log) :
    /\ log[k].expenseEntry = id
    /\ log[k].renewalDate = date
    /\ log[k].action \in {"Continue", "Cancel", "DisableByMIS"}

\* The entry renews on the calendar day `days` days after that of `clock`
RenewsIn(e, clock, days) ==
  e.nextRenewalDate # NullDate /\ DayOf(e.nextRenewalDate) - DayOf(clock) = days

Live(e) == e.status = "Active" /\ e.entryStatus = "Accepted"

HandlerResolves(e) == FindHandler(e.serviceHandler, e.businessUnit) # 0

\* The messages of `sent` on `channel`, of type `type`, about entry id
CountFor(sent, channel, type, id) ==
  Cardinality({k \in 1..Len(sent) :
                 sent[k].channel = channel /\ sent[k].type = type /\ sent[k].entry = id})

\* The instant n calendar months after t: the same day number and time of day
\* n months on, a day number past the end of that month counting on into the next
MonthsAfter(t, n) ==
  LET c == CivilFromDays(DayOf(t))
      months == c.y * 12 + (c.m - 1) + n
  IN  At(DaysFromCivil(months \div 12, (months % 12) + 1, 1) + (c.d - 1), TimeOfDay(t))

(* ------------------------------- C1 ----------------------------------- *)
C1_IngestStep(data) ==
  /\ \A k \in ValidRowsOf(data) :
       LET key == RowKey(data[k])
           before == WithKey(store, key)
           after == WithKey(store', key)
       IN  IF before = {}
           THEN /\ Cardinality(after) = 1
                /\ after \subseteq Created
                /\ \A i \in after :
                     store'[i].duplicateStatus =
                       IF Occurrences(data, key) = 1 THEN "Unique" ELSE "Merged"
           ELSE /\ after = before
                /\ \E i \in before :
                     (\A j \in before : i <= j) /\ store'[i].duplicateStatus = "Merged"
  /\ last'.results.unique =
       Cardinality({key \in {RowKey(data[k]) : k \in ValidRowsOf(data)} :
                      WithKey(store, key) = {}})
  /\ last'.results.merged = Cardinality(ValidRowsOf(data)) - last'.results.unique
  /\ Cardinality(Created) = last'.results.unique

\* C1: bulk ingest is idempotent on duplicates. In every bulk-upload step, a
\* valid row whose duplicate key no record has creates exactly one record, which
\* is Unique unless the same batch repeats the row; a valid row whose key a
\* record already has (from this batch or an earlier one) creates none, leaves
\* the records with that key the same in number, marks the first of them Merged
\* and is counted as merged.
C1_IngestIdempotent ==
  [][last'.op = "bulkUpload" =>
       \A data \in Batches(Rows) : bulkUploadExpenses(data, NoFault) => C1_IngestStep(data)]_vars

\* A batch has just created a record and merged a repeat of its row into it
C1_Witness ==
  /\ last.op = "bulkUpload"
  /\ last.results.unique >= 1
  /\ last.results.merged >= 1
  /\ \E i \in DOMAIN store : store[i].duplicateStatus = "Merged"

(* ------------------------------- C2 ----------------------------------- *)
ReminderDue(e, log, clock) ==
  /\ Live(e)
  /\ RenewsIn(e, clock, ReminderDays)
  /\ e.renewalNotificationSent = FALSE
  /\ ~LogHas(log, e._id, e.nextRenewalDate)

RerunSendsNothing ==
  (last.op = "reminders" /\ last.code = 204 /\ last'.op = "reminders") => last'.sent = <<>>

C3_ActionSuppressesJobs ==
  [][last'.op \in {"reminders", "autoCancel"} =>
       \A i \in DOMAIN store :
         LogHas(renewalLog, i, store[i].nextRenewalDate) =>
           /\ \A k \in 1..Len(last'.sent) : last'.sent[k].entry # i
           /\ store'[i] = store[i]]_vars

\* An auto-cancellation run has just passed over an entry that was reminded,
\* renews in two days and has no notice yet, because its handler has responded
C3_Witness ==
  /\ last.op = "autoCancel"
  /\ \E i \in DOMAIN store :
       /\ Live(store[i])
       /\ RenewsIn(store[i], now, AutoCancelDays)
       /\ store[i].renewalNotificationSent = TRUE
       /\ store[i].autoCancellationNotificationSent = FALSE
       /\ LogHas(renewalLog, i, store[i].nextRenewalDate)

(* ------------------------------- C4 ----------------------------------- *)
NoticedFor(box, type, id, date) ==
  \E m \in box : m.type = type /\ m.entry = id /\ m.renewalDate = date

\* C4: every cycle is ungated. After a completed reminder run, every live
\* entry that renews on today+5, has a resolvable handler and no RenewalLog
\* action for its current date has been sent a reminder for that date; after
\* a completed auto-cancellation run, every live, reminded entry that renews
\* on today+2 and has no RenewalLog action for its current date has been sent
\* an auto-cancel notice for that date, whatever happened in earlier cycles.
C4_EveryCycleUngated ==
  /\ (last.op = "reminders" /\ last.code = 204) =>
       \A i \in DOMAIN store :
         ( /\ Live(store[i])
           /\ RenewsIn(store[i], now, ReminderDays)
           /\ HandlerResolves(store[i])
           /\ ~LogHas(renewalLog, i, store[i].nextRenewalDate) )
         => NoticedFor(outbox, "renewal_reminder", i, store[i].nextRenewalDate)
  /\ (last.op = "autoCancel" /\ last.code = 204) =>
       \A i \in DOMAIN store :
         ( /\ Live(store[i])
           /\ RenewsIn(store[i], now, AutoCancelDays)
           /\ store[i].renewalNotificationSent = TRUE
           /\ ~LogHas(renewalLog, i, store[i].nextRenewalDate) )
         => NoticedFor(outbox, "service_cancellation", i, store[i].nextRenewalDate)

(* ------------------------------- C5 ----------------------------------- *)
RolloverDue(e, clock) ==
  e.renewalNotificationSent = TRUE /\ e.nextRenewalDate # NullDate /\ e.nextRenewalDate < clock

OnePeriodOn(e) ==
  CASE e.recurring = "Monthly" -> MonthsAfter(e.nextRenewalDate, 1)
    [] e.recurring = "Yearly" -> MonthsAfter(e.nextRenewalDate, 12)
    [] OTHER -> e.nextRenewalDate

ExceedsMessage == "Shared allocations exceed total amount"

\* The sum of the submitted allocations that name a business unit and a
\* positive amount
SubmittedTotal(list) == SumAmounts(CleanAllocations(list))

MayCreate(body, u) ==
  ~(UserList[u].role \in {"spoc", "business_unit_admin"}
    /\ body.businessUnit # UserList[u].businessUnit)

\* flagged: only requests under which the record is shared are looked at
CreateRejectsExcess(flagged) ==
  \A body \in CreateBodies, u \in Creators :
    ( /\ createExpenseEntry(body, u)
      /\ MayCreate(body, u)
      /\ SubmittedTotal(body.sharedAllocations) > body.amount
      /\ flagged => body.isShared )
    => (last'.code = 400 /\ store' = store)

UpdateRejectsExcess(flagged) ==
  \A id \in DOMAIN store, body \in UpdateBodies, u \in Updaters :
    ( /\ updateExpenseEntry(id, body, u)
      /\ "sharedAllocations" \in DOMAIN body
      /\ SubmittedTotal(body.sharedAllocations) >
           (IF "amount" \in DOMAIN body THEN body.amount ELSE store[id].amount)
      /\ flagged => (IF "isShared" \in DOMAIN body THEN body.isShared ELSE store[id].isShared) )
    => (last'.code = 400 /\ store' = store)

RowExceeds(row) ==
  LET parsed == parseSharedAllocations(row.shared)
  IN  parsed # <<>> /\ ~IsNaN(row.amount) /\ SumAmounts(parsed) > row.amount

BulkRejectsExcess ==
  \A data \in Batches(Rows) :
    bulkUploadExpenses(data, NoFault) =>
      LET over == {k \in 1..Len(data) : RowExceeds(data[k])}
          errors == last'.results.errors
      IN  /\ \A k \in over :
               \E n \in 1..Len(errors) : errors[n].row = k + 1 /\ errors[n].error = ExceedsMessage
          /\ last'.results.failed >= Cardinality(over)
          /\ Cardinality(Created) <= Len(data) - Cardinality(over)
          /\ (over = 1..Len(data)) => store' = store

\* C6 as stated: every create, update or bulk row that submits allocations
\* whose amounts sum to more than the total amount is rejected with the
\* allocation-exceeds-total error and no record is created or modified.
C6_ExcessAlwaysRejected ==
  [][/\ last'.op = "create" => CreateRejectsExcess(FALSE)
     /\ last'.op = "update" => UpdateRejectsExcess(FALSE)
     /\ last'.op = "bulkUpload" => BulkRejectsExcess]_vars

\* C6 amended: the same for every create or update under which the record is
\* shared (isShared true in the body or, when an update's body has none, on
\* the stored record) and for every bulk row with a non-empty parsed list.
C6_ExcessRejectedWhenShared ==
  [][/\ last'.op = "create" => CreateRejectsExcess(TRUE)
     /\ last'.op = "update" => UpdateRejectsExcess(TRUE)
     /\ last'.op = "bulkUpload" => BulkRejectsExcess]_vars

\* A create whose shared allocations exceed its amount has just been refused
\* next to a record made earlier, and nothing was added
C6_Witness ==
  /\ last.op = "create"
  /\ last.code = 400
  /\ Cardinality(DOMAIN store) = 1
  /\ nextId = 2

(* ------------------------------- C7 ----------------------------------- *)
\* C7: in every reachable state every entry's allocations sum to at most its
\* amount.
C7_AllocationsWithinAmount ==
  \A i \in DOMAIN store : SumAmounts(store[i].sharedAllocations) <= store[i].amount

(* ------------------------------- C8 ----------------------------------- *)
\* C8: no step changes the duplicateStatus of a record that is Merged.
C8_MergedStaysMerged ==
  [][\A i \in DOMAIN store \cap DOMAIN store' :
       store[i].duplicateStatus = "Merged" => store'[i].duplicateStatus = "Merged"]_vars

(* ------------------------------- C9 ----------------------------------- *)
\* A record of a bulk upload is Unique when the step ends unless a later row
\* of the same batch repeated its key and merged into it
BulkCreatesUnique ==
  \A data \in Batches(Rows) :
    bulkUploadExpenses(data, NoFault) =>
      \A i \in Created :
        \/ store'[i].duplicateStatus = "Unique"
        \/ /\ store'[i].duplicateStatus = "Merged"
           /\ Occurrences(data, KeyOf(store'[i])) >= 2

\* C9 as stated: every record is Unique when it is created, by bulk ingest or
\* by single-record creation, whatever the role of the creating user.
C9_CreatedUnique ==
  [][/\ last'.op = "bulkUpload" => BulkCreatesUnique
     /\ last'.op = "create" => \A i \in Created : store'[i].duplicateStatus = "Unique"]_vars

\* C9 amended: a record created by bulk ingest, or by single-record creation
\* by a mis_manager or super_admin, is Unique when it is created; one created
\* by single-record creation by a user of any other role has duplicateStatus
\* null.
C9_CreatedUniqueByRole ==
  [][/\ last'.op = "bulkUpload" => BulkCreatesUnique
     /\ last'.op = "create" =>
          \A body \in CreateBodies, u \in Creators :
            createExpenseEntry(body, u) =>
              \A i \in Created :
                store'[i].duplicateStatus =
                  IF UserList[u].role \in {"mis_manager", "super_admin"}
                  THEN "Unique" ELSE Null]_vars

\* A spoc has just created a record, which has duplicateStatus null, next to
\* a Unique record
C9_Witness ==
  /\ last.op = "create"
  /\ last.code = 201
  /\ \E i \in DOMAIN store : i = nextId - 1 /\ store[i].duplicateStatus = Null
  /\ \E i \in DOMAIN store : store[i].duplicateStatus = "Unique"

(* ------------------------------- C10 ---------------------------------- *)
\* C10: in every reachable state an entry with a non-null nextRenewalDate is
\* Monthly or Yearly.
C10_RenewalDateOnlyIfRecurring ==
  \A i \in DOMAIN store :
    store[i].nextRenewalDate # NullDate => store[i].recurring \in {"Monthly", "Yearly"}

(* ------------------------------- C15 ---------------------------------- *)
\* The calendar day of an instant, counted from 1899-12-30
DayCountFromEpoch(t) == DayOf(t) - ExcelEpochDay

\* C15: for every spreadsheet serial number s >= 0, whole or with a fractional
\* time part, 0 included, the date resolver returns a date on the calendar day
\* floor(s) days after 1899-12-30 UTC, so that re-encoding the date as a day
\* count from that epoch gives floor(s) again.
C15_SerialRoundTrips ==
  (last.op = "parseDate" /\ last.results.value.kind = "serial")
    => /\ last.results.date # NullDate
       /\ DayCountFromEpoch(last.results.date) = last.results.value.v

(* ------------------------------- C11 ---------------------------------- *)
\* C11: in every reachable store state, an entry with isShared = true has a
\* sharedAllocations element whose businessUnit is the entry's own businessUnit
\* (its amount may be 0), also after an update that changes only businessUnit.
C11_SharedHasOwnUnit ==
  \A i \in DOMAIN store :
    store[i].isShared =>
      \E k \in 1..Len(store[i].sharedAllocations) :
        store[i].sharedAllocations[k].businessUnit = store[i].businessUnit

(* ------------------------------- C12 ---------------------------------- *)
\* The request carries the shared secret the deployment is configured with
CarriesSecret(token) == env.CRON_SECRET # Null /\ token = env.CRON_SECRET

\* C12: a trigger request that does not carry the correct shared-secret header
\* never runs its job: it is answered Unauthorized (401) and leaves the store
\* and the notification log as they were, for each of the five trigger paths
\* and in every configuration.
C12_NoSecretNoRun ==
  [][\A job \in Jobs, token \in Tokens :
       \A fault \in JobFaults(job) :
       (~CarriesSecret(token) /\ cronTrigger(job, token, fault))
         => /\ last'.code = 401
            /\ store' = store
            /\ outbox' = outbox]_vars

(* ------------------------------- C13 ---------------------------------- *)
\* The run of `job` throws: its first query fails, or the rate lookup of a
\* currency the store holds fails
JobThrows(job, fault) ==
  \/ fault.stage = "find"
  \/ job = "refresh" /\ fault.stage = "rate" /\ fault.at = 1 /\ DOMAIN store # {}

\* C13: a job run that throws never takes the trigger process down: a trigger
\* that passes the guard answers 204 exactly when the job function completed
\* and 500 when it threw, a scheduled run answers nothing whether it threw or
\* not, and after any run of a job, failed or not, each of the five jobs can
\* still be triggered and run to completion.
C13_ThrowIsAnswered ==
  /\ [][\A job \in Jobs, token \in Tokens :
         \A fault \in JobFaults(job) :
           /\ (cronTrigger(job, token, fault) /\ last'.code # 401)
                => last'.code = IF JobThrows(job, fault) THEN 500 ELSE 204
           /\ scheduledRun(job, fault) => last'.code = 0]_vars
  /\ [](last.op \in Jobs =>
          \A job \in Jobs :
            ENABLED (cronTrigger(job, env.CRON_SECRET, NoFault) /\ last'.code = 204))

\* A refresh over a store with records has thrown and was answered 500
C13_Witness == last.op = "refresh" /\ last.code = 500 /\ DOMAIN store # {}

(* ------------------------------- C14 ---------------------------------- *)
\* The error list names sheet row k + 1
ErrorFor(results, k) == \E e \in 1..Len(results.errors) : results.errors[e].row = k + 1

\* C14: in a bulk ingest of n rows a failure of row i (a missing required
\* field, an unresolved enum, an invalid date, allocations above the total, an
\* exception of the store) never aborts the batch: every row is processed (a
\* row that is invalid is in the error list, a valid row no call throws for
\* has its record in the store and no error), and the request answers the
\* summary with total = n, every row counted as success or failed.
C14_RowFailureContained ==
  [][\A data \in FaultBatches, fault \in BulkFaults :
       (Len(data) > 0 /\ bulkUploadExpenses(data, fault))
         => LET results == last'.results
            IN  /\ last'.code = 200
                /\ results.total = Len(data)
                /\ results.success + results.failed = Len(data)
                /\ Len(results.errors) = results.failed
                /\ \A k \in 1..Len(data) :
                     /\ ~ValidRow(data[k]) => ErrorFor(results, k)
                     /\ (ValidRow(data[k]) /\ fault.at # k)
                          => /\ ~ErrorFor(results, k)
                             /\ WithKey(store', RowKey(data[k])) # {}]_vars

\* A batch of two rows whose first row failed and whose second was ingested
C14_Witness ==
  /\ last.op = "bulkUpload"
  /\ last.results.total = 2
  /\ ErrorFor(last.results, 1)
  /\ ~ErrorFor(last.results, 2)
  /\ last.results.success = 1

(* ------------------------------- C16 ---------------------------------- *)
\* C16: a single-record create or update that is rejected (allocations exceed
\* the total, entry not found, business unit not permitted for the role)
\* answers its rejection (400, 404, 403) and leaves the entry store and the
\* RenewalLog exactly as they were before the request; nothing is sent.
C16_RejectionWithoutEffect ==
  [][(last'.op \in {"create", "update"} /\ last'.code \in {400, 403, 404})
       => /\ store' = store
          /\ renewalLog' = renewalLog
          /\ outbox' = outbox
          /\ nextId' = nextId]_vars

\* An update with allocations above the amount has just been refused on a
\* store with a record and a RenewalLog with a record
C16_Witness ==
  /\ last.op = "update"
  /\ last.code = 400
  /\ DOMAIN store # {}
  /\ renewalLog # <<>>

(* ------------------------------- C17 ---------------------------------- *)
\* C17: the RenewalLog is append-only: in every step of every operation (entry
\* update, entry deletion, ingest, each of the five jobs) every record of the
\* log is still there, in its place and with its fields unchanged; the log
\* only grows.
C17_LogAppendOnly ==
  [][/\ Len(renewalLog') >= Len(renewalLog)
     /\ \A k \in 1..Len(renewalLog) : renewalLog'[k] = renewalLog[k]]_vars

\* An entry has just been deleted and the log still holds a record
C17_Witness ==
  /\ last.op = "delete"
  /\ last.code = 200
  /\ renewalLog # <<>>

(* ------------------------------- C18 ---------------------------------- *)
\* The retention window in days: the configured one, three days by default
RetentionWindow == IF env.AUTO_DELETE_REJECTED_DAYS = "1" THEN 1 ELSE 3

\* The Rejected entries last modified at or before `clock` minus the window
PastRetention(st, clock) ==
  {i \in DOMAIN st :
     /\ st[i].entryStatus = "Rejected"
     /\ clock - st[i].updatedAt >= RetentionWindow * TicksPerDay}

\* C18: an entry leaves the store only in a step of the retention cleanup or
\* of an explicit deletion; a cleanup run deletes exactly the Rejected entries
\* last modified at or before now minus the retention window (never an
\* Accepted or Pending entry, never a Rejected entry modified since); ingest,
\* create, update and the other four jobs remove nothing.
C18_RemovedOnlyByCleanupOrDelete ==
  [][/\ (DOMAIN store \ DOMAIN store' # {}) => last'.op \in {"cleanup", "delete"}
     /\ (last'.op = "cleanup" /\ last'.code = 204)
          => /\ DOMAIN store \ DOMAIN store' = PastRetention(store, now)
             /\ \A i \in DOMAIN store' : store'[i] = store[i]]_vars

\* A cleanup has just deleted one entry and a Rejected entry modified since
\* the cutoff is still stored
C18_Witness ==
  /\ last.op = "cleanup"
  /\ last.code = 204
  /\ last.results.deletedCount = 1
  /\ \E i \in DOMAIN store :
       /\ DOMAIN store = {i}
       /\ store[i].entryStatus = "Rejected"
       /\ now - store[i].updatedAt < RetentionWindow * TicksPerDay
       /\ now > store[i].updatedAt

(* ------------------------------- C19 ---------------------------------- *)
\* The entry `after` is the entry `before` with the current rate of its
\* currency, the INR amount recomputed from it and nothing else changed
RefreshedOnly(before, after) ==
  /\ after.xeRate = getExchangeRate(after.currency)
  /\ after.amountInINR = after.amount * after.xeRate
  /\ after = [before EXCEPT !.xeRate = after.xeRate, !.amountInINR = after.amountInINR]

\* C19: after a run of the exchange-rate refresh that completes without
\* error every entry has xeRate = rate(currency, INR) and amountInINR =
\* amount * xeRate, also the entries whose rate or INR amount came from the
\* sheet, and no other field of any entry has been changed by the run.
C19_RefreshRecomputesOnly ==
  [][(last'.op = "refresh" /\ last'.code = 204)
       => /\ DOMAIN store' = DOMAIN store
          /\ \A i \in DOMAIN store : RefreshedOnly(store[i], store'[i])]_vars

(* ------------------------------- C20 ---------------------------------- *)
\* The entries the request matches when it carries no duplicateStatus
Unfiltered(q, u) ==
  {i \in DOMAIN store : QueryMatches([q EXCEPT !.duplicateStatus = ""], UserList[u], store[i])}

\* The ids of an answer
Listed(data) == {data[k] : k \in 1..Len(data)}

\* C20: a list request whose duplicateStatus is Merged or Unique is answered
\* 200 with exactly the entries of that duplicateStatus among those it would
\* list without the parameter; any other value of the parameter restricts
\* nothing.
C20_DuplicateStatusFilter ==
  [][\A q \in ListQueries, u \in Listers :
       getExpenseEntries(q, u)
         => /\ last'.code = 200
            /\ last'.results.count = Len(last'.results.data)
            /\ Listed(last'.results.data) =
                 IF q.duplicateStatus \in {"Merged", "Unique"}
                 THEN {i \in Unfiltered(q, u) : store[i].duplicateStatus = q.duplicateStatus}
                 ELSE Unfiltered(q, u)]_vars

\* A list answered with the Merged entry while an Accepted entry that is not
\* Merged is stored
C20_Witness ==
  /\ last.op = "list"
  /\ last.code = 200
  /\ last.results.count = 1
  /\ \A i \in Listed(last.results.data) : store[i].duplicateStatus = "Merged"
  /\ \E j \in DOMAIN store :
       /\ store[j].entryStatus = "Accepted"
       /\ store[j].duplicateStatus # "Merged"

(* ------------------------------- C21 ---------------------------------- *)
\* The messages of a sequence that are both in it and in `others`
Repeated(sent, others) == {sent[k] : k \in 1..Len(sent)} \cap others

\* C21: an invocation of the reminder job or of the auto-cancellation job
\* during which no other invocation was in progress sends no message that was
\* sent before for the same entry and renewal date; with two interleaved
\* invocations both read the entry with its flag unset and both send (the
\* witness).
C21_SequentialRunsSendOnce ==
  [][\A p \in Invocations :
       (stepRun(p) /\ ~running[p].overlapped) => Repeated(last'.sent, outbox) = {}]_vars

\* Both invocations of the reminder job have sent the reminder of the same
\* entry and renewal date
C21_Witness ==
  /\ running[1].job = "reminders"
  /\ running[2].job = "reminders"
  /\ \E m \in Repeated(running[1].sent, Repeated(running[2].sent, outbox)) :
       m.type = "renewal_reminder"

(* ------------------------------- C22 ---------------------------------- *)
\* C22: each of the five jobs is idempotent: in the state a completed run of
\* a job has left, with store, RenewalLog, users and clock as they are, a
\* second run of the job leaves the store as it is and sends nothing.
C22_JobsIdempotent ==
  (last.op \in Jobs /\ last.code = 204)
    => LET again == JobRun(last.op, NoFault)
       IN  /\ again.store = store
           /\ again.sent = <<>>
           /\ ~again.threw

\* A reminder run that has sent a reminder
C22_Witness ==
  /\ last.op = "reminders"
  /\ last.code = 204
  /\ last.sent # <<>>

(* ------------------------------- C23 ---------------------------------- *)
\* The outcome of a run of `job` on the store st at the present clock: the job
\* functions with the store as an argument (After(job, store) is
\* JobRun(job, NoFault))
After(job, st) ==
  LET start == [store |-> st, sent |-> <<>>, threw |-> FALSE]
  IN  CASE job = "reminders" ->
             RemindAll(start, InOrder(ReminderCandidates(st, now)), renewalLog, NoFault)
        [] job = "autoCancel" ->
             NoticeAll(start, InOrder(AutoCancelCandidates(st, now)), renewalLog, NoFault)
        [] job = "flagReset" ->
             [start EXCEPT !.store = [i \in DOMAIN st |->
                                       IF i \in ResetCandidates(st, now)
                                       THEN ResetEntry(st[i], now) ELSE st[i]]]
        [] job = "cleanup" -> [start EXCEPT !.store = DeleteMany(st, CleanupMatches(st, now))]
        [] job = "refresh" -> RefreshAll(start, Distinct(st, InOrder(DOMAIN st)), 1, NoFault)

\* The job `first`, then the job `second` on the store it leaves
Then(first, second) ==
  LET one == After(first, store)
      two == After(second, one.store)
  IN  [store |-> two.store, sent |-> MsgSet(one.sent) \cup MsgSet(two.sent)]

\* C23: the jobs commute: in every state, any two of the five jobs run one
\* after the other at the same clock end with the same store and the same set
\* of sent notifications in either order.
C23_JobsCommute ==
  \A a \in Jobs, b \in Jobs : Then(a, b) = Then(b, a)

(* ------------------------------- C24 ---------------------------------- *)
\* Days between the auto-cancellation notice and the renewal (M)
NoticeLead == AutoCancelDays

\* The entries the auto-cancellation job has to notify about: live, reminded,
\* not yet noticed, renewing in M days, and without a response in the log
NoticeDue ==
  {i \in DOMAIN store :
     /\ Live(store[i])
     /\ store[i].renewalNotificationSent
     /\ ~store[i].autoCancellationNotificationSent
     /\ RenewsIn(store[i], now, NoticeLead)
     /\ ~LogHas(renewalLog, i, store[i].nextRenewalDate)}

\* The user receives a message of the auto-cancellation job about the cycle
Noticed(sent, user, id, date) ==
  \E k \in 1..Len(sent) :
    /\ sent[k].type \in {"auto_cancel_notice", "service_cancellation"}
    /\ sent[k].to = user.id
    /\ sent[k].entry = id
    /\ sent[k].renewalDate = date

\* C24: a run of the auto-cancellation job sends only about Active, Accepted
\* entries with renewalNotificationSent=true, autoCancellationNotificationSent
\* =false and nextRenewalDate on the day today+M that have no response in the
\* log; for each of them it notifies the handler if one resolves and every
\* mis_manager and super_admin, and sets autoCancellationNotificationSent
\* whether or not a handler resolved; every other entry is left as it was; and
\* every notice ever sent is for a cycle whose reminder was sent.
C24_NoticeFollowsReminder ==
  [][/\ (last'.op = "autoCancel" /\ last'.code = 204)
          => /\ {last'.sent[k].entry : k \in 1..Len(last'.sent)} = NoticeDue
             /\ \A i \in NoticeDue :
                  /\ \A u \in 1..Len(UserList) :
                       (\/ UserList[u].role \in {"mis_manager", "super_admin"}
                        \/ u = FindHandler(store[i].serviceHandler, store[i].businessUnit))
                         => Noticed(last'.sent, UserList[u], i, store[i].nextRenewalDate)
                  /\ store'[i] = [store[i] EXCEPT !.autoCancellationNotificationSent = TRUE]
             /\ \A i \in DOMAIN store \ NoticeDue : store'[i] = store[i]
     /\ \A m \in outbox' :
          m.type \in {"auto_cancel_notice", "service_cancellation"}
            => \E r \in outbox' : /\ r.type = "renewal_reminder"
                                  /\ r.entry = m.entry
                                  /\ r.renewalDate = m.renewalDate]_vars

\* A notice has been sent about an entry whose handler no longer resolves,
\* and the entry carries the flag
C24_Witness ==
  /\ last.op = "autoCancel"
  /\ last.sent # <<>>
  /\ \E i \in DOMAIN store :
       /\ ~HandlerResolves(store[i])
       /\ store[i].autoCancellationNotificationSent
       /\ \A k \in 1..Len(last.sent) : last.sent[k].entry = i

(* ------------------------------- C25 ---------------------------------- *)
\* The record carries no sharing
Unshared(e) == ~e.isShared /\ e.sharedAllocations = <<>>

\* The records a step has created
CreatedBy == {store'[i] : i \in DOMAIN store' \ DOMAIN store}

\* Single-record create and update: a validation with the flag false ends
\* with isShared = false and no allocations
C25_SingleRecordPart ==
  /\ \A body \in CreateBodies, u \in Creators :
       (createExpenseEntry(body, u) /\ ~body.isShared) => \A e \in CreatedBy : Unshared(e)
  /\ \A id \in 1..MaxEntries, body \in UpdateBodies, u \in Updaters :
       (/\ updateExpenseEntry(id, body, u)
        /\ last'.code = 200
        /\ "isShared" \in DOMAIN body \/ "sharedAllocations" \in DOMAIN body
        /\ ~(IF "isShared" \in DOMAIN body THEN body.isShared ELSE store[id].isShared))
         => Unshared(store'[id])

\* C25: when the isShared flag of the input is false the record is stored
\* with isShared = false and no allocations, whatever the raw allocations, in
\* single-record create and update and in bulk ingest alike: a bulk row whose
\* flag is false or absent and whose 'Shared Bill' cell is not empty is stored
\* with isShared = false and no allocations.
C25_FlagFalseDiscardsAllocations ==
  [][/\ C25_SingleRecordPart
     /\ \A data \in Batches(Rows) :
          (/\ bulkUploadExpenses(data, NoFault)
           /\ \A k \in 1..Len(data) : ~parseBoolean(data[k].isShared))
            => \A e \in CreatedBy : Unshared(e)]_vars

(* ------------------------------- C26 ---------------------------------- *)
\* r is d with the year and month moved on by `months` and the same day of
\* the month and time of day
SameDayLater(d, r, months) ==
  LET from == CivilFromDays(DayOf(d))
      to == CivilFromDays(DayOf(r))
  IN  /\ r # NullDate
      /\ to.d = from.d
      /\ to.y * 12 + to.m = from.y * 12 + from.m + months
      /\ TimeOfDay(r) = TimeOfDay(d)

\* C26: a record created by bulk ingest or by single-record create has
\* nextRenewalDate null if it is One-time, its date plus exactly one calendar
\* month (the same day of the following month, also for the 29th to 31st) if
\* it is Monthly, and its date plus exactly one calendar year if it is Yearly.
C26_RenewalDateAtCreation ==
  \A i \in DOMAIN store :
    LET e == store[i]
    IN  /\ e.recurring = "One-time" => e.nextRenewalDate = NullDate
        /\ e.recurring = "Monthly" => SameDayLater(e.date, e.nextRenewalDate, 1)
        /\ e.recurring = "Yearly" => SameDayLater(e.date, e.nextRenewalDate, 12)

(* ------------------------------- C27 ---------------------------------- *)
\* The calendar date of the string 'a-b-y' read day first when a > 12 and
\* month first otherwise, a 2-digit y being the year 20y
CalendarDateOf(value) ==
  [y |-> IF value.digits = 2 THEN 2000 + value.y ELSE value.y,
   m |-> IF value.a > 12 THEN value.b ELSE value.a,
   d |-> IF value.a > 12 THEN value.a ELSE value.b]

\* The step refused the one row of the batch for its date and stored nothing
RefusedForDate ==
  /\ last'.results.failed = 1
  /\ last'.results.success = 0
  /\ Len(last'.results.errors) = 1
  /\ last'.results.errors[1].row = 2
  /\ last'.results.errors[1].error = "Invalid date"
  /\ store' = store

\* C27: a date string of three numeric parts (a, b, y) resolves to the UTC
\* calendar date with day = a, month = b when a > 12 and month = a, day = b
\* otherwise, a 2-digit y being read as 20y; a value that no resolution step
\* accepts makes the row fail with 'Invalid date' and creates no record.
C27_NumericDateStrings ==
  [][\A row \in SheetRows :
       bulkUploadExpenses(<<row>>, NoFault) =>
         /\ row.date.kind = "parts" =>
              \A e \in CreatedBy :
                /\ CivilFromDays(DayOf(e.date)) = CalendarDateOf(row.date)
                /\ TimeOfDay(e.date) = 0
         /\ row.date.kind = "garbage" => RefusedForDate]_vars

(* ------------------------------- C29 ---------------------------------- *)
\* The cadence whose name or alias the cell spells, case and surrounding
\* blanks aside; One-time when there is none
CadenceOf(cell) ==
  LET spelt == {a \in DOMAIN recurringMap : TrimLower(a) = TrimLower(cell)}
  IN  IF spelt = {} THEN "One-time" ELSE recurringMap[CHOOSE a \in spelt : TRUE]

\* The status cell spells no status and no alias of one
UnresolvedStatus(cell) ==
  /\ TrimLower(cell) \notin DOMAIN statusMap
  /\ \A k \in DOMAIN allowedStatus : TrimLower(allowedStatus[k]) # TrimLower(cell)

\* C29: the recurring cell of a bulk row is canonicalized without regard to
\* case and surrounding blanks: every spelling of a cadence or of an alias
\* ('monthly', ' Yearly ') is stored as that cadence with the matching
\* nextRenewalDate, only a cell that matches nothing is stored One-time, and a
\* status cell that resolves to nothing is stored Active.
C29_RecurringCanonicalized ==
  [][\A row \in SheetRows :
       bulkUploadExpenses(<<row>>, NoFault) =>
         \A e \in CreatedBy :
           /\ e.recurring = CadenceOf(row.recurring)
           /\ e.nextRenewalDate = NextRenewalDate(CadenceOf(row.recurring), e.date)
           /\ UnresolvedStatus(row.status) => e.status = "Active"]_vars

(* ------------------------------- C28 ---------------------------------- *)
\* C28: in the result of a batch, unique is the number of records the batch
\* created, each of them with duplicateStatus = Unique (until a later row of
\* the batch merges into it), and merged the number of rows that matched a
\* record and created none; a row whose create or merge write fails counts as
\* failed and neither as unique nor as merged, so that every row is counted
\* once: unique + merged + failed = total.
C28_BatchCounters ==
  [][\A data \in FaultBatches, fault \in BulkFaults :
       (bulkUploadExpenses(data, fault) /\ Len(data) > 0) =>
         /\ last'.results.unique = Cardinality(CreatedBy)
         /\ \A e \in CreatedBy : e.duplicateStatus = "Unique" \/ last'.results.merged > 0
         /\ last'.results.failed = Len(last'.results.errors)
         /\ last'.results.unique + last'.results.merged + last'.results.failed
              = last'.results.total]_vars

(* ------------------------------- C30 ---------------------------------- *)
RestrictedRoles == {"business_unit_admin", "spoc", "service_handler"}

\* The record is one the user may see under the request q
Visible(q, user, e) ==
  /\ user.role \in RestrictedRoles => e.businessUnit = user.businessUnit
  /\ (user.role # "spoc" /\ q.disableStartDate = NullDate) => e.entryStatus = "Accepted"

\* The answer of the step holds only records the user may see
AnswersVisible(q, u) ==
  \A i \in Listed(last'.results.data) : Visible(q, UserList[u], store[i])

\* C30: for business_unit_admin, spoc and service_handler the list and the
\* export answer only with records of the user's own business unit, whatever
\* businessUnit the request carries, and both answer a user who is not a spoc
\* only with Accepted records unless the request gives a disable-date range.
C30_RoleScopedListAndExport ==
  [][\A q \in VisibilityQueries, u \in Viewers :
       /\ getExpenseEntries(q, u) => AnswersVisible(q, u)
       /\ exportExpenses(q, u) => AnswersVisible(q, u)]_vars

(* ------------------------------- C31 ---------------------------------- *)
\* Every error of the result names the sheet row of a row of the batch, its
\* position counted from 0 plus 2, and carries that row as it was extracted
ErrorsNameRows(results, data) ==
  \A n \in 1..Len(results.errors) :
    LET position == results.errors[n].row - 2
    IN  /\ position \in 0..(Len(data) - 1)
        /\ results.errors[n].data = data[position + 1]

\* C31: at the end of every bulk ingest the result satisfies
\* total = success + failed, success = merged + unique and
\* length(errors) = failed, and every error carries the row number (0-based
\* position of the row) + 2 together with the raw row.
C31_BatchResultSums ==
  [][\A data \in FaultBatches, fault \in BulkFaults :
       (Len(data) > 0 /\ bulkUploadExpenses(data, fault))
         => /\ last'.results.total = last'.results.success + last'.results.failed
            /\ last'.results.success = last'.results.merged + last'.results.unique
            /\ Len(last'.results.errors) = last'.results.failed
            /\ ErrorsNameRows(last'.results, data)]_vars

(* ------------------------------- C32 ---------------------------------- *)
\* C32: the store never holds two records with the same duplicate key
\* (cardNumber, date, particulars, businessUnit, amount, currency) as a result
\* of ingestion, also when two ingests of the same row run at once and
\* interleave their find-then-create steps.
C32_KeysUnique ==
  \A i, j \in DOMAIN store : KeyOf(store[i]) = KeyOf(store[j]) => i = j

(* ------------------------- daily specification ------------------------ *)
\* The server runs its five jobs in process, every day. process.env has
\* ENABLE_IN_APP_CRON = 'true'
DailyEnv == [DefaultEnv EXCEPT !.ENABLE_IN_APP_CRON = "true"]

\* The last day that is observed
LastDay == ClockPoint(0) + MaxDays * TicksPerDay

\* The scheduler over one day: each of the five callbacks fires once, in the
\* order of their cron expressions ('30 1 * * *' refresh, '0 2 * * *' cleanup,
\* '0 3 * * *' flag reset, '0 10 * * *' auto-cancel, '0 14 * * *' reminders),
\* and the next day begins
dailySchedule ==
  \E refreshed \in {After("refresh", store)} :
    \E cleaned \in {After("cleanup", refreshed.store)} :
      \E reset \in {After("flagReset", cleaned.store)} :
        \E noticed \in {After("autoCancel", reset.store)} :
          \E reminded \in {After("reminders", noticed.store)} :
            /\ env.ENABLE_IN_APP_CRON = "true"
            /\ now + TicksPerDay <= LastDay
            /\ store' = reminded.store
            /\ outbox' = outbox \cup MsgSet(refreshed.sent) \cup MsgSet(cleaned.sent)
                           \cup MsgSet(reset.sent) \cup MsgSet(noticed.sent)
                           \cup MsgSet(reminded.sent)
            /\ now' = now + TicksPerDay
            /\ last' = Answer("day", 0, noticed.sent \o reminded.sent, NoResults)
            /\ UNCHANGED <<env, running, nextId, renewalLog>>

\* A subscription of Wytlabs bought on 2025-01-05, one bought on 2024-02-05,
\* and one of Collabx, where no handler is registered
DailyRows ==
  {BaseRow, [BaseRow EXCEPT !.date = Serial(SerialB, 0)],
   [BaseRow EXCEPT !.businessUnit = "Collabx"]}

\* No user request writes a Rejected record: uploads come while no record is
\* Rejected, and the MIS manager rejects a record once
NoneRejected == \A i \in DOMAIN store : store[i].entryStatus # "Rejected"

InitDaily == Started /\ env = DailyEnv

NextDaily ==
  \/ \E row \in DailyRows : NoneRejected /\ bulkUploadExpenses(<<row>>, NoFault)
  \/ \E id \in 1..MaxEntries :
       /\ id \in DOMAIN store
       /\ store[id].entryStatus # "Rejected"
       /\ updateExpenseEntry(id, [entryStatus |-> "Rejected"], 2)
  \/ \E id \in 1..MaxEntries : recordRenewalAction(id, "Continue")
  \/ dailySchedule

\* The scheduler fires every day
SpecDaily == InitDaily /\ [][NextDaily]_vars /\ WF_vars(dailySchedule)

(* ------------------------------- C33 ---------------------------------- *)
\* The record is an Active, Accepted recurring entry whose renewal has passed
Overdue(i) ==
  /\ i \in DOMAIN store
  /\ Live(store[i])
  /\ store[i].recurring \in {"Monthly", "Yearly"}
  /\ store[i].nextRenewalDate # NullDate
  /\ store[i].nextRenewalDate < now

RejectedEntry(i) == i \in DOMAIN store /\ store[i].entryStatus = "Rejected"

ReminderFaults ==
  {NoFault} \cup {[at |-> id, stage |-> stage] : id \in 1..MaxEntries,
                                                  stage \in {"email", "notify"}}

\* Two monthly subscriptions of Wytlabs, both handled by Asha Rao
ReminderRows == {BaseRow, [BaseRow EXCEPT !.amount = 200]}

NextReminders ==
  \/ \E row \in ReminderRows : bulkUploadExpenses(<<row>>, NoFault)
  \/ \E id \in 1..MaxEntries : recordRenewalAction(id, "Continue")
  \/ \E fault \in ReminderFaults : cronTrigger("reminders", Null, fault)
  \/ \E i \in 1..MaxClock : advanceClock(i)

SpecReminders == Init /\ [][NextReminders]_vars

(* ------------------------------- C35 ---------------------------------- *)
\* The run of the step sent the message of the channel about the entry
SentInRun(channel, id) ==
  \E n \in 1..Len(last'.sent) :
    /\ last'.sent[n].channel = channel
    /\ last'.sent[n].type = "renewal_reminder"
    /\ last'.sent[n].entry = id

\* C35: in the reminder job renewalNotificationSent is set for an entry
\* exactly when its e-mail and its persisted notification were sent in that
\* run: when sending throws for some entry no entry is left with an e-mail
\* sent and the flag unset, the entries handled before keep their flag, and
\* the entries not yet reminded stay candidates of a later run.
C35_ReminderFlagMatchesDelivery ==
  [][\A fault \in ReminderFaults :
       cronTrigger("reminders", Null, fault) =>
         \A i \in DOMAIN store :
           /\ i \in DOMAIN store'
           /\ (store'[i].renewalNotificationSent /\ ~store[i].renewalNotificationSent)
                <=> (SentInRun("email", i) /\ SentInRun("notification", i))
           /\ SentInRun("email", i) => store'[i].renewalNotificationSent
           /\ store[i].renewalNotificationSent => store'[i].renewalNotificationSent
           /\ (i \in ReminderCandidates(store, now) /\ ~SentInRun("email", i))
                => i \in ReminderCandidates(store', now)]_vars

(* ------------------------ refusal specification ----------------------- *)
\* Sheets of one row, valid or failing one check of the loop, a rejection by
\* the MIS manager, deletions, and the clock
NextRefusals ==
  \/ \E row \in FaultRows : bulkUploadExpenses(<<row>>, NoFault)
  \/ \E id \in 1..MaxEntries : updateExpenseEntry(id, [entryStatus |-> "Rejected"], 2)
  \/ \E id \in 1..MaxEntries : deleteExpenseEntry(id)
  \/ now + RetentionStep <= ClockPoint(0) + MaxElapse * RetentionStep /\ elapse(RetentionStep)

SpecRefusals == Init /\ [][NextRefusals]_vars

(* ------------------------------- C36 ---------------------------------- *)
\* findOne answers the row with a record that is already Merged
DuplicateOfMerged(row) ==
  /\ ValidRow(row)
  /\ FindDuplicate(store, RowKey(row)) # 0
  /\ store[FindDuplicate(store, RowKey(row))].duplicateStatus = "Merged"

\* C36: a bulk row that fails validation (missing required field, unresolved
\* enum, invalid date, allocations above the total) leaves the store
\* unchanged, also when a record with its duplicate key exists, and a
\* duplicate of a record that is already Merged causes no write to the store.
C36_RefusedRowsWriteNothing ==
  [][\A row \in FaultRows :
       bulkUploadExpenses(<<row>>, NoFault) =>
         /\ last'.results.failed = 1 => (store' = store /\ nextId' = nextId)
         /\ DuplicateOfMerged(row) => (store' = store /\ nextId' = nextId)]_vars

\* A row with allocations above its amount was refused while the record with
\* its key is stored, still Unique
C36_Witness ==
  /\ last.op = "bulkUpload"
  /\ last.results.failed = 1
  /\ last.results.errors[1].data = [BaseRow EXCEPT !.shared = ShareOver]
  /\ \E i \in DOMAIN store :
       /\ KeyOf(store[i]) = RowKey(BaseRow)
       /\ store[i].duplicateStatus = "Unique"

(* ------------------------- search specification ----------------------- *)
\* A search text, a disable-date range from 2025-01-01, and both
SearchQueries ==
  {[NoQuery EXCEPT !.search = "figma"],
   [NoQuery EXCEPT !.disableStartDate = At(DaysFromCivil(2025, 1, 1), 0)],
   [NoQuery EXCEPT !.search = "figma", !.disableStartDate = At(DaysFromCivil(2025, 1, 1), 0)],
   [NoQuery EXCEPT !.search = "asha", !.disableStartDate = At(DaysFromCivil(2025, 1, 1), 0)]}

\* The MIS manager and the spoc of Wytlabs
Searchers == {2, 5}

NextSearch ==
  \/ \E row \in VisibilityRows : bulkUploadExpenses(<<row>>, NoFault)
  \/ \E id \in 1..MaxEntries, body \in VisibilityBodies : updateExpenseEntry(id, body, 2)
  \/ \E q \in SearchQueries, u \in Searchers : getExpenseEntries(q, u)
  \/ \E q \in SearchQueries, u \in Searchers : exportExpenses(q, u)

SpecSearch == Init /\ [][NextSearch]_vars

(* ------------------------------- C37 ---------------------------------- *)
\* Every record of the answer of the step holds the search text in a searched
\* field and has its disable date in the range
AnswersMatchBoth(q) ==
  \A i \in Listed(last'.results.data) :
    /\ SearchClauses(q.search, store[i])
    /\ DisableClauses(q, store[i])

\* C37: when a list or an export request carries both a search text and a
\* disable-date range, every entry of the answer matches the search text in
\* one of the searched fields and has its disable date in the range.
C37_SearchAndDisableRange ==
  [][\A q \in SearchQueries, u \in Searchers :
       (q.search # "" /\ q.disableStartDate # NullDate) =>
         /\ getExpenseEntries(q, u) => AnswersMatchBoth(q)
         /\ exportExpenses(q, u) => AnswersMatchBoth(q)]_vars

(* ------------------------ disabling specification --------------------- *)
\* A deactivation and a reactivation
DisableBodies == {[status |-> "Deactive"], [status |-> "Active"]}

\* The MIS manager and the business unit admin of Wytlabs
Disablers == {2, 4}

NextDisable ==
  \/ bulkUploadExpenses(<<BaseRow>>, NoFault)
  \/ \E id \in 1..MaxEntries, body \in DisableBodies, u \in Disablers :
       updateExpenseEntry(id, body, u)
  \/ \E id \in 1..MaxEntries : deleteExpenseEntry(id)
  \/ now + RetentionStep <= ClockPoint(0) + MaxElapse * RetentionStep /\ elapse(RetentionStep)

SpecDisable == Init /\ [][NextDisable]_vars

(* ------------------------------- C38 ---------------------------------- *)
\* The step appends one record to the RenewalLog: DisableByMIS for the entry
AppendsDisableByMIS(id) ==
  /\ Len(renewalLog') = Len(renewalLog) + 1
  /\ SubSeq(renewalLog', 1, Len(renewalLog)) = renewalLog
  /\ renewalLog'[Len(renewalLog')].expenseEntry = id
  /\ renewalLog'[Len(renewalLog')].action = "DisableByMIS"

\* C38: an update that moves the status of an entry from a value other than
\* Deactive to Deactive stamps disabledAt and, when made by mis_manager or
\* super_admin, appends exactly one RenewalLog record DisableByMIS for the
\* entry; an update that sets Deactive on an entry that is already Deactive
\* changes neither disabledAt nor the RenewalLog.
C38_DisableStampsAndLogsOnce ==
  [][\A id \in 1..MaxEntries, u \in Disablers :
       (updateExpenseEntry(id, [status |-> "Deactive"], u) /\ id \in DOMAIN store) =>
         IF store[id].status # "Deactive"
         THEN /\ store'[id].status = "Deactive"
              /\ store'[id].disabledAt = now
              /\ IF UserList[u].role \in {"mis_manager", "super_admin"}
                 THEN AppendsDisableByMIS(id)
                 ELSE renewalLog' = renewalLog
         ELSE /\ store'[id].disabledAt = store[id].disabledAt
              /\ renewalLog' = renewalLog]_vars

\* A second deactivation of an entry the MIS manager had deactivated earlier
\* has been answered: disabledAt is the time of the first one and the log holds
\* its one record
C38_Witness ==
  /\ last.op = "update"
  /\ last.code = 200
  /\ \E id \in DOMAIN store :
       /\ store[id].status = "Deactive"
       /\ store[id].disabledAt # NullDate
       /\ store[id].disabledAt < now
       /\ Len(renewalLog) = 1
       /\ renewalLog[1].expenseEntry = id
       /\ renewalLog[1].action = "DisableByMIS"
       /\ renewalLog[1].renewalDate = store[id].disabledAt

====
